---- MODULE Spec2Model ----
(***************************************************************************)
(* A model of the replication core of the RESP key-value server: the       *)
(* primary's session loop (handler.rs), Master::propagate / add_slave      *)
(* (roles/master.rs), WAIT (commands/wait.rs), and the replica's handshake *)
(* and apply loop (roles/slave.rs).                                        *)
(*                                                                         *)
(* A command frame is a RESP array of bulk strings, modelled as a sequence *)
(* of strings: <<"SET", "k", "1">>.                                        *)
(*                                                                         *)
(* Further specifications over the same variables model one part each:     *)
(* SpecTx the MULTI/EXEC queue of a session, SpecRead the reading of       *)
(* frames from a connection's buffer, SpecXadd the ids of XADD, SpecXread  *)
(* XREAD with BLOCK and the watch channel, SpecStore the keyed store with  *)
(* expiry, SpecWire frames of every kind on a connection, SpecPropagate    *)
(* Master::propagate over several replica links. Each says at its head     *)
(* what it keeps in which variable.                                        *)
(***************************************************************************)
EXTENDS Integers, Sequences, FiniteSets, TLC

VARIABLES
    db,           \* primary: DB.inner, key -> Value (db/mod.rs)
    repl_offset,  \* primary: Master.repl_offset
    slaves,       \* primary: Master.slaves, a sequence of Replica records
    lock,         \* primary: holder of the write lock on Master.slaves, or NoOne
    sess,         \* primary: one CommandHandler task per connection
    sent,         \* per replica link: the frames the primary wrote, in order
    acks,         \* per replica link: frames written by the replica, not yet read by the primary
    rstate,       \* replica: position of the Slave task
    roffset,      \* replica: Slave.offset
    rdb,          \* replica: its own DB.inner
    rread,        \* replica: number of frames of the link it has read
    hist          \* history: counters that the properties refer to

vars == <<db, repl_offset, slaves, lock, sess, sent, acks, rstate, roffset, rdb, rread, hist>>

-----------------------------------------------------------------------------
(* Bounds of the model *)

\* client commands issued in one behaviour of Spec
MaxCmds == 3

\* frames the primary sends in one behaviour of SpecSlave
MaxFrames == 3

Clients == {"c1", "c2"}
Replicas == {"r1"}
Conns == Clients \cup Replicas
Keys == {"k", "j"}
NoOne == "none"

-----------------------------------------------------------------------------
(* resp.rs *)

CRLF_LEN == Len("\r\n")

RECURSIVE int_len(_)
\* the closure int_len of Resp::len: checked_ilog10(int).unwrap_or(0) + 1
int_len(int) == IF int < 10 THEN 1 ELSE 1 + int_len(int \div 10)

RECURSIVE SumSeq(_)
SumSeq(s) == IF s = <<>> THEN 0 ELSE Head(s) + SumSeq(Tail(s))

\* Resp::len of a Resp::Bulk
BulkLen(inner) == 1 + int_len(Len(inner)) + CRLF_LEN + Len(inner) + CRLF_LEN

\* Resp::len of a Resp::Array whose elements are Resp::Bulk
RespLen(elems) ==
    1 + int_len(Len(elems)) + CRLF_LEN + SumSeq([i \in 1..Len(elems) |-> BulkLen(elems[i])])

-----------------------------------------------------------------------------
(* handler.rs: Handler::write *)

\* Handler::write_bulk with crlf = true
write_bulk(bulk) == "$" \o ToString(Len(bulk)) \o "\r\n" \o bulk \o "\r\n"

RECURSIVE WriteElems(_)
WriteElems(elems) ==
    IF elems = <<>> THEN "" ELSE write_bulk(Head(elems)) \o WriteElems(Tail(elems))

\* the bytes Handler::write puts on the socket for a Resp::Array of Resp::Bulk
HandlerWrite(elems) == "*" \o ToString(Len(elems)) \o "\r\n" \o WriteElems(elems)

\* Handler::write_simple with c = '+'
write_simple(simple) == "+" \o simple \o "\r\n"

-----------------------------------------------------------------------------
(* lib.rs: slice_to_int, by atoi::atoi on the strings of the model.  atoi
   reads the leading decimal digits of the slice and gives None only when the
   slice starts with no digit (or the number overflows the target type). *)

IntRange == (0..400) \cup {6380}
IntStr == [n \in IntRange |-> ToString(n)]
StrInt == [s \in {IntStr[n] : n \in IntRange} |-> CHOOSE n \in IntRange : IntStr[n] = s]
NotInt == 0 - 1

\* the largest i64, scaled to the range of the model
I64Max == 400

\* slice_to_int: the number the leading digits of the slice stand for, NotInt
\* when atoi gives None; 1x is the model's string with digits and a tail
slice_to_int(slice) ==
    IF slice \in DOMAIN StrInt THEN StrInt[slice]
    ELSE IF slice = "1x" THEN 1
    ELSE NotInt

-----------------------------------------------------------------------------
(* db/mod.rs, db/stream.rs, commands/incr.rs: the store *)

NoValue == [t |-> "none"]
StringValue(bytes) == [t |-> "string", v |-> bytes]
StreamValue(ids) == [t |-> "stream", ids |-> ids]

EmptyDb == [k \in Keys |-> NoValue]

\* EntryId's derived Ord: ms_time first, then sq_num
IdLeq(a, b) == a[1] < b[1] \/ (a[1] = b[1] /\ a[2] <= b[2])

\* BTreeMap::last_key_value of a stream that is not empty
LastId(ids) == CHOOSE a \in ids : \A b \in ids : IdLeq(b, a)

\* EntryId.ms_time is a Duration, finer than a millisecond: it is counted in
\* ticks, TicksPerMs of them to the millisecond. Duration::from_millis is the
\* multiplication, as_millis (in Display) the truncating division.
TicksPerMs == 2

\* Display of EntryId: <ms_time.as_millis()>-<sq_num>
EntryIdString(id) == ToString(id[1] \div TicksPerMs) \o "-" \o ToString(id[2])

\* the id arguments of the XADD requests of the model
XaddIds ==
    {"*", "x"} \cup {ToString(ms) \o "-*" : ms \in 0..2}
        \cup {ToString(ms) \o "-" \o ToString(seq) : ms \in 0..2, seq \in 0..1}

\* Xadd::parse on the id argument (rsplit_once('-'), then the u64 parses):
\* kind is the MaybeAuto variant, ms the Duration in ticks; ok = FALSE for
\* 0-0 and for an id of neither form
ParseTable ==
    [id \in XaddIds |->
        IF id = "*" THEN [ok |-> TRUE, kind |-> "Auto", ms |-> 0, seq |-> 0]
        ELSE IF \E ms \in 0..2 : id = ToString(ms) \o "-*"
        THEN [ok |-> TRUE, kind |-> "AutoSeq",
              ms |-> TicksPerMs * (CHOOSE ms \in 0..2 : id = ToString(ms) \o "-*"), seq |-> 0]
        ELSE IF \E ms \in 0..2, seq \in 0..1 : id = ToString(ms) \o "-" \o ToString(seq)
        THEN LET p == CHOOSE p \in (0..2) \X (0..1) : id = ToString(p[1]) \o "-" \o ToString(p[2])
             IN [ok |-> ~(p[1] = 0 /\ p[2] = 0), kind |-> "Set",
                 ms |-> TicksPerMs * p[1], seq |-> p[2]]
        ELSE [ok |-> FALSE, kind |-> "Invalid", ms |-> 0, seq |-> 0]]

ParseStreamId(id) ==
    IF id \in XaddIds THEN ParseTable[id]
    ELSE [ok |-> FALSE, kind |-> "Invalid", ms |-> 0, seq |-> 0]

\* a MaybeAuto::auto_generate whose AutoSeq arm keeps the number 0 at time 0
auto_generate_from_zero(id, ids) ==
    IF id.kind = "Set"
    THEN IF ids # {} /\ IdLeq(<<id.ms, id.seq>>, LastId(ids))
         THEN [ok |-> FALSE, id |-> <<0, 0>>]
         ELSE [ok |-> TRUE, id |-> <<id.ms, id.seq>>]
    ELSE IF id.kind = "AutoSeq"
    THEN IF ids # {} /\ id.ms < LastId(ids)[1]
         THEN [ok |-> FALSE, id |-> <<0, 0>>]
         ELSE [ok |-> TRUE,
               id |-> <<id.ms, IF ids = {} THEN 0
                               ELSE IF id.ms = LastId(ids)[1] THEN LastId(ids)[2] + 1 ELSE 0>>]
    ELSE [ok |-> TRUE,
          id |-> <<id.ms, IF ids # {} /\ LastId(ids)[1] = id.ms THEN LastId(ids)[2] + 1 ELSE 0>>]

\* MaybeAuto::auto_generate: the id, or ok = FALSE for SMALL_EQ. For Auto,
\* id.ms is what UNIX_EPOCH.elapsed() returns in this call.
auto_generate(id, ids) ==
    IF id.kind = "Set"
    THEN IF ids # {} /\ IdLeq(<<id.ms, id.seq>>, LastId(ids))
         THEN [ok |-> FALSE, id |-> <<0, 0>>]
         ELSE [ok |-> TRUE, id |-> <<id.ms, id.seq>>]
    ELSE IF id.kind = "AutoSeq"
    THEN IF ids # {} /\ id.ms < LastId(ids)[1]
         THEN [ok |-> FALSE, id |-> <<0, 0>>]
         ELSE LET num == IF ids = {} THEN 0
                         ELSE IF id.ms = LastId(ids)[1] THEN LastId(ids)[2] + 1 ELSE 0
              IN [ok |-> TRUE,
                  id |-> <<id.ms, IF id.ms = 0 /\ num = 0 THEN 1 ELSE num>>]
    ELSE [ok |-> TRUE,
          id |-> <<id.ms, IF ids # {} /\ LastId(ids)[1] = id.ms THEN LastId(ids)[2] + 1 ELSE 0>>]

\* Db::set: overwrites unconditionally
DbSet(d, key, value) == [d EXCEPT ![key] = StringValue(value)]

\* a DEL that counts every name of a present key, a key named twice counted twice
DbDelCountsNames(d, keys) ==
    [db |-> [k \in Keys |-> IF \E i \in 1..Len(keys) : keys[i] = k THEN NoValue ELSE d[k]],
     count |-> Cardinality({i \in 1..Len(keys) : d[keys[i]] # NoValue})]

\* Db::del: the store without the keys, and how many of them were removed
DbDel(d, keys) ==
    [db |-> [k \in Keys |-> IF \E i \in 1..Len(keys) : keys[i] = k THEN NoValue ELSE d[k]],
     count |-> Cardinality({k \in Keys : d[k] # NoValue /\ \E i \in 1..Len(keys) : keys[i] = k})]

\* an INCR that computes the new value of an occupied entry and does not store it
DbIncrUnstored(d, key) ==
    IF d[key] = NoValue
    THEN [ok |-> TRUE, db |-> [d EXCEPT ![key] = StringValue(ToString(1))], val |-> 1]
    ELSE IF d[key].t # "string" \/ slice_to_int(d[key].v) = NotInt
         THEN [ok |-> FALSE, db |-> d, val |-> 0]
         ELSE [ok |-> TRUE, db |-> d, val |-> slice_to_int(d[key].v) + 1]

\* Incr::apply, the whole of it under the write lock
DbIncr(d, key) ==
    IF d[key] = NoValue
    THEN [ok |-> TRUE, db |-> [d EXCEPT ![key] = StringValue(ToString(1))], val |-> 1]
    ELSE IF \/ d[key].t # "string"
            \/ slice_to_int(d[key].v) = NotInt
            \/ slice_to_int(d[key].v) = I64Max
         THEN [ok |-> FALSE, db |-> d, val |-> 0]
         ELSE LET value == slice_to_int(d[key].v) + 1
              IN [ok |-> TRUE, db |-> [d EXCEPT ![key] = StringValue(ToString(value))],
                  val |-> value]

\* Db::xadd
DbXadd(d, key, id) ==
    IF d[key] # NoValue /\ d[key].t # "stream"
    THEN [ok |-> FALSE, db |-> d]
    ELSE LET ids == IF d[key] = NoValue THEN {} ELSE d[key].ids
             gen == auto_generate(id, ids)
         IN IF gen.ok
            THEN [ok |-> TRUE, db |-> [d EXCEPT ![key] = StreamValue(ids \cup {gen.id})]]
            ELSE [ok |-> FALSE, db |-> d]

-----------------------------------------------------------------------------
(* commands/mod.rs and the parsers of commands/*.rs *)

\* [u8]::to_ascii_lowercase on the command names and options of the model
to_ascii_lowercase(s) ==
    CASE s \in {"SET", "set"} -> "set"
      [] s \in {"DEL", "del"} -> "del"
      [] s \in {"INCR", "incr"} -> "incr"
      [] s \in {"XADD", "xadd"} -> "xadd"
      [] s \in {"GET", "get"} -> "get"
      [] s \in {"PING", "ping"} -> "ping"
      [] s \in {"ECHO", "echo"} -> "echo"
      [] s \in {"WAIT", "wait"} -> "wait"
      [] s \in {"PSYNC", "psync"} -> "psync"
      [] s \in {"REPLCONF", "replconf"} -> "replconf"
      [] s \in {"GETACK", "getack"} -> "getack"
      [] s \in {"ACK", "ack"} -> "ack"
      [] s \in {"MULTI", "multi"} -> "multi"
      [] s \in {"EXEC", "exec"} -> "exec"
      [] s \in {"DISCARD", "discard"} -> "discard"
      [] s \in {"capa"} -> "capa"
      [] s \in {"listening-port"} -> "listening-port"
      [] OTHER -> s

ParseError == [kind |-> "Error"]

\* ReplConf::parse
ReplConfParse(f) ==
    IF Len(f) < 2 THEN ParseError
    ELSE CASE to_ascii_lowercase(f[2]) = "listening-port" ->
                IF Len(f) >= 3 /\ slice_to_int(f[3]) # NotInt
                THEN [kind |-> "ReplConf", sub |-> "ListeningPort"] ELSE ParseError
           [] to_ascii_lowercase(f[2]) = "capa" ->
                IF Len(f) >= 3 THEN [kind |-> "ReplConf", sub |-> "Capa"] ELSE ParseError
           [] to_ascii_lowercase(f[2]) = "getack" ->
                IF Len(f) >= 3 /\ f[3] = "*"
                THEN [kind |-> "ReplConf", sub |-> "GetAck"] ELSE ParseError
           [] to_ascii_lowercase(f[2]) = "ack" ->
                IF Len(f) >= 3 /\ slice_to_int(f[3]) # NotInt
                THEN [kind |-> "ReplConf", sub |-> "Ack", offset |-> slice_to_int(f[3])]
                ELSE ParseError
           [] OTHER -> [kind |-> "Panic"]

\* Command::parse: the parsed command of a frame, ParseError when the command's
\* parser fails, kind "Panic" where the code reaches unimplemented!() or todo!()
CommandParse(f) ==
    IF f = <<>> THEN ParseError
    ELSE CASE to_ascii_lowercase(f[1]) = "ping" -> [kind |-> "Ping"]
           [] to_ascii_lowercase(f[1]) = "echo" ->
                IF Len(f) >= 2 THEN [kind |-> "Echo", msg |-> f[2]] ELSE ParseError
           [] to_ascii_lowercase(f[1]) = "get" ->
                IF Len(f) >= 2 THEN [kind |-> "Get", key |-> f[2]] ELSE ParseError
           [] to_ascii_lowercase(f[1]) = "set" ->
                IF Len(f) >= 3 THEN [kind |-> "Set", key |-> f[2], value |-> f[3]]
                ELSE ParseError
           [] to_ascii_lowercase(f[1]) = "del" -> [kind |-> "Del", keys |-> Tail(f)]
           [] to_ascii_lowercase(f[1]) = "incr" ->
                IF Len(f) >= 2 THEN [kind |-> "Incr", key |-> f[2]] ELSE ParseError
           [] to_ascii_lowercase(f[1]) = "xadd" ->
                IF Len(f) >= 5 /\ Len(f) % 2 = 1 /\ ParseStreamId(f[3]).ok
                THEN [kind |-> "Xadd", key |-> f[2], id |-> ParseStreamId(f[3])]
                ELSE ParseError
           [] to_ascii_lowercase(f[1]) = "wait" ->
                IF Len(f) >= 3 /\ slice_to_int(f[2]) # NotInt /\ slice_to_int(f[3]) # NotInt
                THEN [kind |-> "Wait", min_slaves |-> slice_to_int(f[2]),
                      timeout |-> slice_to_int(f[3])]
                ELSE ParseError
           [] to_ascii_lowercase(f[1]) = "psync" ->
                IF Len(f) >= 3 /\ (f[3] = "-1" \/ slice_to_int(f[3]) # NotInt)
                THEN [kind |-> "Psync"] ELSE ParseError
           [] to_ascii_lowercase(f[1]) = "replconf" -> ReplConfParse(f)
           [] to_ascii_lowercase(f[1]) = "multi" ->
                IF Len(f) = 1 THEN [kind |-> "Multi"] ELSE ParseError
           [] to_ascii_lowercase(f[1]) = "exec" ->
                IF Len(f) = 1 THEN [kind |-> "Exec"] ELSE ParseError
           [] OTHER -> [kind |-> "Panic"]

\* the commands after which CommandHandler::apply_commands calls propagate
WriteKinds == {"Set", "Del", "Xadd", "Incr"}

\* Set::execute, Del::execute, Xadd::execute, Incr::execute on a store d:
\* whether the command succeeded and the store afterwards
Execute(d, cmd) ==
    CASE cmd.kind = "Set" -> [ok |-> TRUE, db |-> DbSet(d, cmd.key, cmd.value)]
      [] cmd.kind = "Del" -> [ok |-> TRUE, db |-> DbDel(d, cmd.keys).db]
      [] cmd.kind = "Incr" -> [ok |-> DbIncr(d, cmd.key).ok, db |-> DbIncr(d, cmd.key).db]
      [] cmd.kind = "Xadd" -> DbXadd(d, cmd.key, cmd.id)
      [] OTHER -> [ok |-> TRUE, db |-> d]

\* ReplConf::into_resp
GetAckFrame == <<"REPLCONF", "GETACK", "*">>
AckFrame(offset) == <<"REPLCONF", "ACK", ToString(offset)>>

-----------------------------------------------------------------------------
(* frames on a replica link. t is the Resp variant: "Array" (of Bulk, f the  *)
(* sequence of strings), "Simple" (f the text) or "Data" (the snapshot bulk  *)
(* without trailing CRLF). n numbers the write commands in the order the     *)
(* primary's store applied them (0 otherwise) and at is the primary's        *)
(* repl_offset when the frame was written: both are history, not payload.    *)

ArrayFrame(f, n, at) == [t |-> "Array", f |-> f, n |-> n, at |-> at]
SimpleFrame(text) == [t |-> "Simple", f |-> text, n |-> 0, at |-> 0]
DataFrame == [t |-> "Data", f |-> "rdb", n |-> 0, at |-> 0]

-----------------------------------------------------------------------------
(* roles/master.rs *)

\* Handler::disconnected: the error kinds after which a replica is dropped
disconnected(e) == e \in {"ConnectionAborted", "UnexpectedEof", "ConnectionReset"}

\* what a write to replica link r can return: Ok while the peer has the link
\* open; after the peer closed it the kernel may still take the bytes, or
\* report the reset, or report a broken pipe
WriteResults(r) ==
    IF rstate[r] \in {"closed", "failed"} THEN {"Ok", "ConnectionReset", "BrokenPipe"} ELSE {"Ok"}

\* a propagate that counts every frame it writes, the GETACK of WAIT too
PropagateLenAlways(resp, incr_offset) == RespLen(resp)

\* let len = if incr_offset { resp.len() } else { 0 }
PropagateLen(resp, incr_offset) == IF incr_offset THEN RespLen(resp) ELSE 0

\* a retain that keeps only the replicas whose write succeeded
RECURSIVE RetainedOnOk(_, _, _)
RetainedOnOk(list, res, len) ==
    IF list = <<>> THEN <<>>
    ELSE LET rest == RetainedOnOk(Tail(list), Tail(res), len)
         IN IF Head(res) # "Ok" THEN rest
            ELSE <<[Head(list) EXCEPT !.offset = @ + len]>> \o rest

\* lock.retain(|_| retain.next().unwrap()) after slave.offset += len
RECURSIVE Retained(_, _, _)
Retained(list, res, len) ==
    IF list = <<>> THEN <<>>
    ELSE LET rest == Retained(Tail(list), Tail(res), len)
         IN IF disconnected(Head(res)) THEN rest
            ELSE <<[Head(list) EXCEPT !.offset = @ + len]>> \o rest

\* Master::propagate, with res[i] the result of the write to the i-th replica.
\* n and the repl_offset at the time of the write are recorded with the frame.
MasterPropagate(resp, incr_offset, res, n) ==
    /\ slaves' = Retained(slaves, res, PropagateLen(resp, incr_offset))
    /\ repl_offset' = repl_offset + PropagateLen(resp, incr_offset)
    /\ sent' = [r \in DOMAIN sent |->
                  IF \E i \in 1..Len(slaves) : slaves[i].conn = r /\ res[i] = "Ok"
                  THEN Append(sent[r], ArrayFrame(resp, n, repl_offset))
                  ELSE sent[r]]

\* the results the writes of one propagate call can have
PropagateResults ==
    {res \in [1..Len(slaves) -> {"Ok", "ConnectionReset", "BrokenPipe"}] :
        \A i \in 1..Len(slaves) : res[i] \in WriteResults(slaves[i].conn)}

\* Master::add_slave: Replica::new(handler) pushed at the end
add_slave(list, r) == Append(list, [conn |-> r, offset |-> 0])

-----------------------------------------------------------------------------
(* handler.rs: CommandHandler, one task per connection of the primary *)

Idle == [pc |-> "idle", cmd |-> <<>>, n |-> 0, mo |-> 0, count |-> 0,
         processed |-> 0, idx |-> 0, reply |-> ""]

\* handler.write(&resp) at the end of handle_command: back to reading. The
\* reply is on the wire and no longer state of the session.
Answer(c) == sess' = [sess EXCEPT ![c] = Idle]

\* the same for the reply of WAIT, which the session record keeps until the
\* next request is read
AnswerWait(c, reply) == sess' = [sess EXCEPT ![c] = [Idle EXCEPT !.reply = reply]]

\* an apply_commands whose Ping arm propagates as well
PropagatesPing(kind) == kind \in WriteKinds \cup {"Ping"}

\* the match arms of apply_commands that call propagate after execute
Propagates(kind) == kind \in WriteKinds

\* a handle_commands that goes on reading after CommandError::Replicated
LoopReturnsFinished(e) == e = "Finished"

\* handle_commands: the errors of handle_command on which the loop returns
LoopReturns(e) == e \in {"Finished", "Replicated"}

\* the requests the client sessions of the model send
ClientFrames ==
    { <<"SET", "k", "1">>, <<"INCR", "k">>, <<"DEL", "k">>, <<"XADD", "k", "1-1", "f", "v">>,
      <<"PING">>, <<"GET", "k">>, <<"GET">>, <<"WAIT", "1", "0">>, <<"WAIT", "2", "100">> }

\* an apply_commands that goes on to propagate whatever execute returned
ExecutedAlways(e) == TRUE

\* let resp = cmd.execute()?: apply_commands goes on only with an Ok
Executed(e) == e.ok

\* handle_command up to the first await after the store was touched: read a
\* frame, parse it, and for a command that is not WAIT or PSYNC execute it;
\* max bounds the requests of one behaviour
handle_command(c, f, max) ==
    /\ sess[c].pc = "idle"
    /\ hist.issued < max
    /\ LET cmd == CommandParse(f)
           e == Execute(db, cmd)
       IN CASE cmd.kind = "Error" ->
                 /\ Answer(c)
                 /\ hist' = [hist EXCEPT !.issued = @ + 1]
                 /\ UNCHANGED db
            [] cmd.kind = "Panic" ->
                 /\ sess' = [sess EXCEPT ![c] = [Idle EXCEPT !.pc = "closed"]]
                 /\ hist' = [hist EXCEPT !.issued = @ + 1]
                 /\ UNCHANGED db
            [] cmd.kind = "Wait" ->
                 /\ sess' = [sess EXCEPT ![c] =
                       [Idle EXCEPT !.pc = IF repl_offset = 0 THEN "wait_count" ELSE "wait_getack",
                                    !.cmd = f, !.mo = repl_offset]]
                 /\ hist' = [hist EXCEPT !.issued = @ + 1]
                 /\ UNCHANGED db
            [] cmd.kind \notin {"Error", "Panic", "Wait"} /\ Propagates(cmd.kind) ->
                 IF Executed(e)
                 THEN /\ db' = e.db
                      /\ sess' = [sess EXCEPT ![c] =
                            [Idle EXCEPT !.pc = "propagate", !.cmd = f, !.n = hist.applied + 1]]
                      /\ hist' = [hist EXCEPT !.issued = @ + 1, !.applied = @ + 1]
                 ELSE /\ Answer(c)
                      /\ hist' = [hist EXCEPT !.issued = @ + 1]
                      /\ UNCHANGED db
            [] OTHER ->
                 /\ Answer(c)
                 /\ hist' = [hist EXCEPT !.issued = @ + 1]
                 /\ UNCHANGED db
    /\ UNCHANGED <<repl_offset, slaves, lock, sent, acks, rstate, roffset, rdb, rread>>

\* handle_command of a session of Spec
HandleCommand(c, f) == handle_command(c, f, MaxCmds)

\* propagate(self.role, raw_cmd).await, then the reply is written
Propagate(c, res) ==
    /\ sess[c].pc = "propagate"
    /\ lock = NoOne
    /\ res \in PropagateResults
    /\ MasterPropagate(sess[c].cmd, TRUE, res, sess[c].n)
    /\ Answer(c)
    /\ hist' = [hist EXCEPT !.bytes = @ + Len(HandlerWrite(sess[c].cmd))]
    /\ UNCHANGED <<db, lock, acks, rstate, roffset, rdb, rread>>

\* the Psync arm of apply_commands up to add_slave: psync.execute, the handler
\* is taken, +FULLRESYNC <replid> <offset> and the snapshot are written. The
\* peer sent PSYNC and keeps the link open at least until it has read the
\* reply, so both writes succeed. n remembers how many write commands the
\* store had applied when psync.execute ran (history).
PsyncRespond(r) ==
    /\ sess[r].pc = "idle"
    /\ CommandParse(<<"PSYNC", "?", "-1">>).kind = "Psync"
    /\ sess' = [sess EXCEPT ![r] =
          [Idle EXCEPT !.pc = "psync", !.mo = repl_offset, !.n = hist.applied]]
    /\ sent' = [sent EXCEPT ![r] = sent[r] \o <<SimpleFrame("FULLRESYNC"), DataFrame>>]
    /\ UNCHANGED <<db, repl_offset, slaves, lock, acks, rstate, roffset, rdb, rread, hist>>

\* master.add_slave(handler).await; return Err(CommandError::Replicated)
AddSlave(r) ==
    /\ sess[r].pc = "psync"
    /\ lock = NoOne
    /\ slaves' = add_slave(slaves, r)
    /\ sess' = [sess EXCEPT ![r] =
          [Idle EXCEPT !.pc = IF LoopReturns("Replicated") THEN "replicated" ELSE "idle"]]
    /\ hist' = [hist EXCEPT !.joined[r] = hist.bytes, !.before[r] = hist.applied]
    /\ UNCHANGED <<db, repl_offset, lock, sent, acks, rstate, roffset, rdb, rread>>

-----------------------------------------------------------------------------
(* commands/wait.rs: Wait::apply_and_respond, run by the session task *)

Min(a, b) == IF a < b THEN a ELSE b

\* master_offset == 0: the count of connected replicas, under the read lock
WaitCount(c) ==
    /\ sess[c].pc = "wait_count"
    /\ lock = NoOne
    /\ AnswerWait(c, ":" \o ToString(Len(slaves)))
    /\ UNCHANGED <<db, repl_offset, slaves, lock, sent, acks, rstate, roffset, rdb, rread, hist>>

\* master.propagate(&ReplConf::GetAck.into_resp(), false).await
WaitGetAck(c, res) ==
    /\ sess[c].pc = "wait_getack"
    /\ lock = NoOne
    /\ res \in PropagateResults
    /\ MasterPropagate(GetAckFrame, FALSE, res, 0)
    /\ sess' = [sess EXCEPT ![c].pc = "wait_lock"]
    /\ UNCHANGED <<db, lock, acks, rstate, roffset, rdb, rread, hist>>

\* the scan is over: drop(slaves), then the reply. failed: the task ended with
\* an error, which task.await? returns when there is no timeout and which
\* let _ = timeout_at(..) discards when there is one
WaitFinish(c, processed, failed) ==
    /\ lock' = NoOne
    /\ AnswerWait(c, IF failed /\ CommandParse(sess[c].cmd).timeout = 0
                 THEN "-ERR" ELSE ":" \o ToString(processed))

\* a WAIT that scans under master.slaves.read(): the list stays open to the
\* writers while it counts
WaitLockShared(c) ==
    /\ sess[c].pc = "wait_lock"
    /\ lock = NoOne
    /\ IF slaves = <<>>
       THEN WaitFinish(c, 0, FALSE)
       ELSE /\ lock' = NoOne
            /\ sess' = [sess EXCEPT ![c].pc = "wait_scan", ![c].idx = 1, ![c].processed = 0,
                           ![c].count = Min(CommandParse(sess[c].cmd).min_slaves, Len(slaves))]
    /\ UNCHANGED <<db, repl_offset, slaves, sent, acks, rstate, roffset, rdb, rread, hist>>

\* let mut slaves = master.slaves.write().await; count; processed = 0; the
\* for loop over no replica ends at once
WaitLock(c) ==
    /\ sess[c].pc = "wait_lock"
    /\ lock = NoOne
    /\ IF slaves = <<>>
       THEN WaitFinish(c, 0, FALSE)
       ELSE /\ lock' = c
            /\ sess' = [sess EXCEPT ![c].pc = "wait_scan", ![c].idx = 1, ![c].processed = 0,
                           ![c].count = Min(CommandParse(sess[c].cmd).min_slaves, Len(slaves))]
    /\ UNCHANGED <<db, repl_offset, slaves, sent, acks, rstate, roffset, rdb, rread, hist>>

\* what slave.handler.read() returns on link r: a frame when one is buffered,
\* else end of stream or an error once the peer closed, else it keeps waiting
ReadResults(r) ==
    IF acks[r] # <<>> THEN {"Frame"}
    ELSE IF rstate[r] \in {"closed", "failed"} THEN {"Eof", "ConnectionReset"} ELSE {}

\* get_offset: the k of REPLCONF ACK k, NotInt when the frame is something else
get_offset(resp) ==
    IF CommandParse(resp).kind = "ReplConf" /\ CommandParse(resp).sub = "Ack"
    THEN CommandParse(resp).offset ELSE NotInt

\* one iteration of the for loop of the task
WaitScan(c, how) ==
    /\ sess[c].pc = "wait_scan"
    /\ how \in ReadResults(slaves[sess[c].idx].conn)
    /\ LET r == slaves[sess[c].idx].conn
           last == sess[c].idx = Len(slaves)
           slave_offset == get_offset(Head(acks[r]).f)
           processed == IF slave_offset >= sess[c].mo
                        THEN sess[c].processed + 1 ELSE sess[c].processed
       IN CASE how = "Eof" ->
                 /\ IF last THEN WaitFinish(c, sess[c].processed, FALSE)
                    ELSE sess' = [sess EXCEPT ![c].idx = @ + 1] /\ UNCHANGED lock
                 /\ UNCHANGED acks
            [] how = "ConnectionReset" ->
                 /\ WaitFinish(c, sess[c].processed, TRUE)
                 /\ UNCHANGED acks
            [] how = "Frame" ->
                 /\ acks' = [acks EXCEPT ![r] = Tail(@)]
                 /\ IF slave_offset = NotInt
                    THEN WaitFinish(c, sess[c].processed, TRUE)
                    ELSE IF processed >= sess[c].count \/ last
                         THEN WaitFinish(c, processed, FALSE)
                         ELSE sess' = [sess EXCEPT ![c].idx = @ + 1,
                                                   ![c].processed = processed]
                              /\ UNCHANGED lock
    /\ UNCHANGED <<db, repl_offset, slaves, sent, rstate, roffset, rdb, rread, hist>>

\* tokio::time::timeout_at fires: the task is dropped where it waits
WaitTimeout(c) ==
    /\ sess[c].pc = "wait_scan"
    /\ CommandParse(sess[c].cmd).timeout # 0
    /\ WaitFinish(c, sess[c].processed, FALSE)
    /\ UNCHANGED <<db, repl_offset, slaves, sent, acks, rstate, roffset, rdb, rread, hist>>

-----------------------------------------------------------------------------
(* roles/slave.rs: the Slave task of a replica, at the other end of link r.  *)
(* It reads the frames of sent[r] in order (rread[r] of them are read) and   *)
(* writes to acks[r]. sess[r].pc = "closed" says the primary closed the link.*)

HasFrame(r) == rread[r] < Len(sent[r])
NextFrame(r) == sent[r][rread[r] + 1]
AtEof(r) == ~HasFrame(r) /\ sess[r].pc = "closed"

\* the replica writes frame f; at is the repl_offset recorded with the frame
\* it answers (history)
SlaveWrite(r, f, at) == acks' = [acks EXCEPT ![r] = Append(@, [f |-> f, at |-> at])]

\* the requests of the handshake, in the order Slave::handshake writes them
PingFrame == <<"PING">>
ListeningPortFrame == <<"REPLCONF", "listening-port", "6380">>
CapaFrame == <<"REPLCONF", "capa", "psync2">>
PsyncFrame == <<"psync", "?", "-1">>

\* handshake: handler.write(&Ping::new(None).into_resp())
HandshakeStart(r) ==
    /\ rstate[r] = "start"
    /\ SlaveWrite(r, PingFrame, 0)
    /\ rstate' = [rstate EXCEPT ![r] = "hs_ping"]
    /\ UNCHANGED <<db, repl_offset, slaves, lock, sess, sent, roffset, rdb, rread, hist>>

\* check_handshake: recv.is_some_and(|x| x.as_simple().is_some_and(|x| x == msg))
check_handshake(recv, msg) == recv.t = "Simple" /\ recv.f = msg

\* check_handshake(&mut handler, msg) for PONG, OK and OK, each followed by the
\* next request of the handshake
HandshakeCheck(r) ==
    /\ rstate[r] \in {"hs_ping", "hs_port", "hs_capa"}
    /\ HasFrame(r) \/ AtEof(r)
    /\ LET msg == IF rstate[r] = "hs_ping" THEN "PONG" ELSE "OK"
       IN IF HasFrame(r) /\ check_handshake(NextFrame(r), msg)
          THEN /\ rstate' = [rstate EXCEPT ![r] =
                     CASE rstate[r] = "hs_ping" -> "hs_port"
                       [] rstate[r] = "hs_port" -> "hs_capa"
                       [] OTHER -> "hs_psync"]
               /\ SlaveWrite(r, CASE rstate[r] = "hs_ping" -> ListeningPortFrame
                                  [] rstate[r] = "hs_port" -> CapaFrame
                                  [] OTHER -> PsyncFrame, 0)
          ELSE /\ rstate' = [rstate EXCEPT ![r] = "failed"]
               /\ UNCHANGED acks
    /\ rread' = [rread EXCEPT ![r] = IF HasFrame(r) THEN @ + 1 ELSE @]
    /\ UNCHANGED <<db, repl_offset, slaves, lock, sess, sent, roffset, rdb, hist>>

\* whether the handshake goes on after the reply to PSYNC:
\* let recv = handler.read().await?; recv is logged and not looked at
psync_reply_accepted(recv) == TRUE

\* handshake: the read of the reply to PSYNC
HandshakePsyncReply(r) ==
    /\ rstate[r] = "hs_psync"
    /\ HasFrame(r) \/ AtEof(r)
    /\ rstate' = [rstate EXCEPT ![r] =
          IF HasFrame(r) /\ ~psync_reply_accepted(NextFrame(r)) THEN "failed" ELSE "hs_rdb"]
    /\ rread' = [rread EXCEPT ![r] = IF HasFrame(r) THEN @ + 1 ELSE @]
    /\ UNCHANGED <<db, repl_offset, slaves, lock, sess, sent, acks, roffset, rdb, hist>>

\* handshake: Resp::parse_rdb on what follows, Rdb::parse, DB.apply_rdb. The
\* snapshot of the model holds no key, so apply_rdb extends the store by nothing.
HandshakeRdb(r) ==
    /\ rstate[r] = "hs_rdb"
    /\ HasFrame(r) \/ AtEof(r)
    /\ rstate' = [rstate EXCEPT ![r] =
          IF HasFrame(r) /\ NextFrame(r).t = "Data" THEN "following" ELSE "failed"]
    /\ rread' = [rread EXCEPT ![r] = IF HasFrame(r) /\ NextFrame(r).t = "Data" THEN @ + 1 ELSE @]
    /\ UNCHANGED <<db, repl_offset, slaves, lock, sess, sent, acks, roffset, rdb, hist>>

\* Command::parse(&resp) in handle_connection: frames that are no array fail
SlaveParse(resp) == IF resp.t = "Array" THEN CommandParse(resp.f) ELSE ParseError

\* a handle_connection without the Incr arm
SlaveExecutesNoIncr(cmd) == cmd.kind \in WriteKinds \ {"Incr"}

\* handle_connection: the commands the replica executes on its store
SlaveExecutes(cmd) == cmd.kind \in WriteKinds

\* a handle_connection that answers PING as well
SlaveAnswersPing(cmd) == cmd.kind \in {"ReplConf", "Ping"}

\* handle_connection: the commands after which the replica writes to the link
SlaveAnswers(cmd) == cmd.kind = "ReplConf"

\* handle_connection: whether the iteration reaches
\* self.increase_offset(resp.len() as u64), which the continue after a parse
\* error skips
ReachesIncrease(cmd) == cmd.kind # "Error"

\* a handle_connection that adds the length of the frame before the match
OffsetCountedFirst(offset, len) == offset + len

\* the offset that replconf.execute_slave(self) reads for a frame of length
\* len: Self::Ack(slave.offset()), in the ReplConf arm of the match, which
\* runs before self.increase_offset(resp.len()) at the end of the iteration
OffsetAtAck(offset, len) == offset

\* one iteration of the loop of handle_connection
SlaveHandle(r) ==
    /\ rstate[r] = "following"
    /\ HasFrame(r) \/ AtEof(r)
    /\ IF ~HasFrame(r)
       THEN /\ rstate' = [rstate EXCEPT ![r] = "closed"]
            /\ UNCHANGED <<acks, roffset, rdb, rread>>
       ELSE LET resp == NextFrame(r)
                cmd == SlaveParse(resp)
                dies == \/ cmd.kind = "Panic"
                        \/ SlaveAnswers(cmd) /\ cmd.kind = "ReplConf" /\ cmd.sub # "GetAck"
            IN /\ rread' = [rread EXCEPT ![r] = @ + 1]
               /\ rstate' = [rstate EXCEPT ![r] = IF dies THEN "closed" ELSE @]
               /\ rdb' = [rdb EXCEPT ![r] =
                     IF SlaveExecutes(cmd) THEN Execute(@, cmd).db ELSE @]
               /\ IF SlaveAnswers(cmd) /\ ~dies
                  THEN SlaveWrite(r, AckFrame(OffsetAtAck(roffset[r], RespLen(resp.f))), resp.at)
                  ELSE UNCHANGED acks
               /\ roffset' = [roffset EXCEPT ![r] =
                     IF ReachesIncrease(cmd) /\ ~dies THEN @ + RespLen(resp.f) ELSE @]
    /\ UNCHANGED <<db, repl_offset, slaves, lock, sess, sent, hist>>

\* the replica process stops, or its network does
SlaveClose(r) ==
    /\ rstate[r] = "following"
    /\ rstate' = [rstate EXCEPT ![r] = "closed"]
    /\ UNCHANGED <<db, repl_offset, slaves, lock, sess, sent, acks, roffset, rdb, rread, hist>>

-----------------------------------------------------------------------------
(* Spec: a primary with the client sessions Clients and the replica links    *)
(* Replicas, whose peers have done the first three steps of the handshake    *)
(* and now send PSYNC.                                                       *)

Init ==
    /\ db = EmptyDb
    /\ repl_offset = 0
    /\ slaves = <<>>
    /\ lock = NoOne
    /\ sess = [c \in Conns |-> Idle]
    /\ sent = [r \in Replicas |-> <<>>]
    /\ acks = [r \in Replicas |-> <<>>]
    /\ rstate = [r \in Replicas |-> "hs_psync"]
    /\ roffset = [r \in Replicas |-> 0]
    /\ rdb = [r \in Replicas |-> EmptyDb]
    /\ rread = [r \in Replicas |-> 0]
    /\ hist = [issued |-> 0, applied |-> 0, bytes |-> 0, joined |-> [r \in Replicas |-> 0],
               before |-> [r \in Replicas |-> 0]]

Next ==
    \/ \E c \in Clients, f \in ClientFrames : HandleCommand(c, f)
    \/ \E c \in Clients, res \in PropagateResults : Propagate(c, res)
    \/ \E c \in Clients : WaitCount(c)
    \/ \E c \in Clients, res \in PropagateResults : WaitGetAck(c, res)
    \/ \E c \in Clients : WaitLock(c)
    \/ \E c \in Clients, how \in {"Frame", "Eof", "ConnectionReset"} : WaitScan(c, how)
    \/ \E c \in Clients : WaitTimeout(c)
    \/ \E r \in Replicas : PsyncRespond(r)
    \/ \E r \in Replicas : AddSlave(r)
    \/ \E r \in Replicas : HandshakePsyncReply(r)
    \/ \E r \in Replicas : HandshakeRdb(r)
    \/ \E r \in Replicas : SlaveHandle(r)
    \/ \E r \in Replicas : SlaveClose(r)

Spec == Init /\ [][Next]_vars

\* The session tasks of the primary are scheduled by the tokio runtime, which
\* runs every task that can make progress, and its timers fire. Clients and
\* replicas are other processes: nothing makes them send, read or answer.
Fairness ==
    \A c \in Clients :
        /\ WF_vars(\E res \in PropagateResults : Propagate(c, res))
        /\ WF_vars(WaitCount(c))
        /\ WF_vars(\E res \in PropagateResults : WaitGetAck(c, res))
        /\ WF_vars(WaitLock(c))
        /\ WF_vars(\E how \in {"Frame", "Eof", "ConnectionReset"} : WaitScan(c, how))
        /\ WF_vars(WaitTimeout(c))

FairSpec == Spec /\ Fairness

-----------------------------------------------------------------------------
(* SpecWait: the primary of Spec with the one client session c1, which sends *)
(* DEL k and WAIT 1 100 only, and the replica link r1: longer histories of   *)
(* WAIT calls than Spec has room for. The variables are those of Spec.       *)

\* client commands issued in one behaviour of SpecWait
MaxWaitCmds == 5

WaitClient == "c1"

WaitFrames == { <<"DEL", "k">>, <<"WAIT", "1", "100">> }

NextWait ==
    \/ \E f \in WaitFrames : handle_command(WaitClient, f, MaxWaitCmds)
    \/ \E res \in PropagateResults : Propagate(WaitClient, res)
    \/ WaitCount(WaitClient)
    \/ \E res \in PropagateResults : WaitGetAck(WaitClient, res)
    \/ WaitLock(WaitClient)
    \/ \E how \in {"Frame", "Eof", "ConnectionReset"} : WaitScan(WaitClient, how)
    \/ WaitTimeout(WaitClient)
    \/ \E r \in Replicas : PsyncRespond(r)
    \/ \E r \in Replicas : AddSlave(r)
    \/ \E r \in Replicas : HandshakePsyncReply(r)
    \/ \E r \in Replicas : HandshakeRdb(r)
    \/ \E r \in Replicas : SlaveHandle(r)
    \/ \E r \in Replicas : SlaveClose(r)

SpecWait == Init /\ [][NextWait]_vars

-----------------------------------------------------------------------------
(* SpecSlave: the replica at the other end of link r1, from the start of its *)
(* handshake, with a primary that may be any server: what it sends is drawn  *)
(* from LinkFrames, one frame at a time once the replica has read the ones   *)
(* before, and it may close the link.                                        *)

TheSlave == "r1"

ReplyFrames == {SimpleFrame("PONG"), SimpleFrame("OK"), SimpleFrame("FULLRESYNC")}

CommandFrames ==
    { ArrayFrame(f, 0, 0) :
        f \in { <<"SET", "k", "1">>, <<"INCR", "k">>, <<"DEL", "k">>,
                <<"XADD", "k", "1-1", "f", "v">>, <<"PING">>, <<"GET">>, GetAckFrame, <<"REPLCONF", "ACK", "0">> } }

\* the four replies of the handshake, then the snapshot, then commands
LinkFrames(pos) ==
    IF pos <= 4 THEN ReplyFrames
    ELSE IF pos = 5 THEN {DataFrame, SimpleFrame("OK")}
    ELSE CommandFrames \cup {SimpleFrame("OK")}

PrimarySends(r, fr) ==
    /\ sess[r].pc = "idle"
    /\ rstate[r] \notin {"start", "failed", "closed"}
    /\ rread[r] = Len(sent[r])
    /\ Len(sent[r]) < 5 + MaxFrames
    /\ fr \in LinkFrames(Len(sent[r]) + 1)
    /\ sent' = [sent EXCEPT ![r] = Append(@, fr)]
    /\ UNCHANGED <<db, repl_offset, slaves, lock, sess, acks, rstate, roffset, rdb, rread, hist>>

PrimaryCloses(r) ==
    /\ sess[r].pc = "idle"
    /\ rstate[r] \notin {"start", "failed", "closed"}
    /\ sess' = [sess EXCEPT ![r].pc = "closed"]
    /\ UNCHANGED <<db, repl_offset, slaves, lock, sent, acks, rstate, roffset, rdb, rread, hist>>

InitSlave ==
    /\ db = EmptyDb
    /\ repl_offset = 0
    /\ slaves = <<>>
    /\ lock = NoOne
    /\ sess = [c \in Conns |-> Idle]
    /\ sent = [r \in Replicas |-> <<>>]
    /\ acks = [r \in Replicas |-> <<>>]
    /\ rstate = [r \in Replicas |-> "start"]
    /\ roffset = [r \in Replicas |-> 0]
    /\ rdb = [r \in Replicas |-> EmptyDb]
    /\ rread = [r \in Replicas |-> 0]
    /\ hist = [issued |-> 0, applied |-> 0, bytes |-> 0, joined |-> [r \in Replicas |-> 0],
               before |-> [r \in Replicas |-> 0]]

NextSlave ==
    \/ HandshakeStart(TheSlave)
    \/ HandshakeCheck(TheSlave)
    \/ HandshakePsyncReply(TheSlave)
    \/ HandshakeRdb(TheSlave)
    \/ SlaveHandle(TheSlave)
    \/ \E fr \in ReplyFrames \cup CommandFrames \cup {DataFrame} : PrimarySends(TheSlave, fr)
    \/ PrimaryCloses(TheSlave)

SpecSlave == InitSlave /\ [][NextSlave]_vars

-----------------------------------------------------------------------------
(* SpecTx: one client session of a primary, with the transaction state of   *)
(* its CommandHandler. Here sess[c] is the record [pc, transaction,         *)
(* queued], queued being the raw frames of the queued (parsed, raw) pairs,  *)
(* db is the store, sent the frames Master::propagate was called with, and  *)
(* hist remembers the request the session handled last; the other           *)
(* variables keep their initial values.                                     *)
(* A Resp value is a record [t, v] of two strings, t the variant.           *)

MaxTxCmds == 5

TxClient == "c1"

\* enum Resp: Simple, Err, Integer (v its digits), Bulk, Null (v empty) and
\* Array (v empty, the elements are kept beside it)
Resp(t, v) == [t |-> t, v |-> v]

\* Command::parse as the handler of handler.rs uses it: with the arm of
\* DISCARD, whose parser is Discard::parse
CommandParseTx(f) ==
    IF f # <<>> /\ to_ascii_lowercase(f[1]) = "discard"
    THEN IF Len(f) = 1 THEN [kind |-> "Discard"] ELSE ParseError
    ELSE CommandParse(f)

\* e.to_string() of the anyhow error with which a parser of commands/*.rs fails
ParseErrorText(f) ==
    IF f = <<>> THEN "Unsupported RESP for command"
    ELSE CASE to_ascii_lowercase(f[1]) = "multi" ->
                "ERR wrong number of arguments for 'multi' command"
           [] to_ascii_lowercase(f[1]) = "exec" ->
                "ERR wrong number of arguments for 'exec' command"
           [] to_ascii_lowercase(f[1]) = "discard" ->
                "ERR wrong number of arguments for 'discard' command"
           [] OTHER -> "Missing key"

\* the Resp of the execute of a command that is not MULTI, EXEC or DISCARD,
\* on the store d: Resp::Err stands for the Err(e) that apply_commands returns
CommandResp(d, cmd) ==
    CASE cmd.kind = "Set" -> Resp("Simple", "OK")
      [] cmd.kind = "Del" -> Resp("Integer", ToString(DbDel(d, cmd.keys).count))
      [] cmd.kind = "Incr" ->
           IF DbIncr(d, cmd.key).ok THEN Resp("Integer", ToString(DbIncr(d, cmd.key).val))
           ELSE IF d[cmd.key].t # "string"
                THEN Resp("Err", "WRONGTYPE Operation against a key holding the wrong kind of value")
                ELSE Resp("Err", "ERR value is not an integer or out of range")
      [] cmd.kind = "Xadd" ->
           IF d[cmd.key] # NoValue /\ d[cmd.key].t # "stream"
           THEN Resp("Err", "XADD on invalid key")
           ELSE LET ids == IF d[cmd.key] = NoValue THEN {} ELSE d[cmd.key].ids
                IN IF auto_generate(cmd.id, ids).ok
                   THEN Resp("Bulk", EntryIdString(auto_generate(cmd.id, ids).id))
                   ELSE Resp("Err", "ERR The ID specified in XADD is equal or smaller than the target stream top item")
      [] cmd.kind = "Get" ->
           IF d[cmd.key] = NoValue THEN Resp("Null", "")
           ELSE IF d[cmd.key].t = "string" THEN Resp("Bulk", d[cmd.key].v)
           ELSE Resp("Err", "Invalid type")
      [] cmd.kind = "Ping" -> Resp("Simple", "PONG")
      [] cmd.kind = "Echo" -> Resp("Bulk", cmd.msg)
      [] OTHER -> Resp("Simple", "OK")

\* apply_commands for a command that is not PSYNC or WAIT, on a primary
\* without replicas (propagate returns at once): the store afterwards, the
\* Resp or the error, and the transaction flag afterwards
ApplyCommands(d, cmd, transaction) ==
    CASE cmd.kind = "Exec" ->
           [db |-> d, resp |-> Resp("Err", "ERR EXEC without MULTI"), transaction |-> transaction]
      [] cmd.kind = "Discard" ->
           [db |-> d, resp |-> Resp("Err", "ERR DISCARD without MULTI"), transaction |-> transaction]
      [] cmd.kind = "Multi" ->
           [db |-> d, resp |-> Resp("Simple", "OK"), transaction |-> TRUE]
      [] OTHER ->
           [db |-> Execute(d, cmd).db, resp |-> CommandResp(d, cmd), transaction |-> transaction]

\* an apply_exec that returns at the first command that fails
RECURSIVE ApplyExecStops(_, _)
ApplyExecStops(d, queue) ==
    IF queue = <<>> THEN [db |-> d, queue_res |-> <<>>]
    ELSE LET r == ApplyCommands(d, CommandParseTx(Head(queue)), TRUE)
         IN IF r.resp.t = "Err"
            THEN [db |-> r.db, queue_res |-> <<r.resp>>]
            ELSE LET rest == ApplyExecStops(r.db, Tail(queue))
                 IN [db |-> rest.db, queue_res |-> <<r.resp>> \o rest.queue_res]

\* apply_exec: the loop over the taken queue; an Err(e) of apply_commands
\* becomes the element Resp::Err(e.to_string())
RECURSIVE ApplyExec(_, _)
ApplyExec(d, queue) ==
    IF queue = <<>> THEN [db |-> d, queue_res |-> <<>>]
    ELSE LET r == ApplyCommands(d, CommandParseTx(Head(queue)), TRUE)
             rest == ApplyExec(r.db, Tail(queue))
         IN [db |-> rest.db, queue_res |-> <<r.resp>> \o rest.queue_res]

\* a handle_command that applies SET at once although a transaction is open
QueuesButSet(cmd) == cmd.kind \notin {"Exec", "Multi", "Discard", "Set"}

\* a handle_command without the arm of MULTI: a nested MULTI is queued
QueuesMulti(cmd) == cmd.kind \notin {"Exec", "Discard"}

\* a handle_command without the arm of DISCARD: it is queued like any command
QueuesDiscard(cmd) == cmd.kind \notin {"Exec", "Multi"}

\* handle_command, if self.transaction: the commands of the arm `other`
Queues(cmd) == cmd.kind \notin {"Exec", "Multi", "Discard"}

\* an apply_commands that calls propagate whatever execute returned
PropagatedAll(queue, queue_res) == queue

\* the frames apply_commands hands to propagate, one call for each request of
\* queue in order, queue_res being what the calls return: raw_cmd when the
\* arm is one of the write commands and execute did not fail
RECURSIVE Propagated(_, _)
Propagated(queue, queue_res) ==
    IF queue = <<>> \/ queue_res = <<>> THEN <<>>
    ELSE (IF Propagates(CommandParseTx(Head(queue)).kind) /\ Head(queue_res).t # "Err"
          THEN <<Head(queue)>> ELSE <<>>)
         \o Propagated(Tail(queue), Tail(queue_res))

\* the requests the session of SpecTx receives
TxFrames ==
    { <<"MULTI">>, <<"EXEC">>, <<"DISCARD">>, <<"SET", "k", "1">>, <<"INCR", "k">>,
      <<"XADD", "k", "1-1", "f", "v">>, <<"GET", "k">>, <<"GET">>, <<"GET", "k", "x">>,
      <<"MULTI", "x">>, <<"FOO">> }

TxIdle == [pc |-> "idle", transaction |-> FALSE, queued |-> <<>>]

\* what hist keeps of a handled request: the frame, the session, the store
\* and repl_offset before it, and what was written to the client (written =
\* <<>> when nothing was, else the one Resp; elems are the elements of an
\* array).  recv are the requests other than MULTI, EXEC and DISCARD received
\* in the transaction opened last, nested whether a MULTI was rejected in it.
Handled(c, f, written, elems) ==
    [issued |-> hist.issued + 1, f |-> f, transaction |-> sess[c].transaction,
     queued |-> sess[c].queued, db |-> db, offset |-> repl_offset,
     written |-> written, elems |-> elems,
     recv |-> IF sess[c].transaction
              THEN IF to_ascii_lowercase(f[1]) \in {"multi", "exec", "discard"}
                   THEN hist.recv ELSE Append(hist.recv, f)
              ELSE IF CommandParseTx(f).kind = "Multi" THEN <<>> ELSE hist.recv,
     nested |-> IF CommandParseTx(f).kind = "Multi" THEN sess[c].transaction ELSE hist.nested]

\* one turn of the loop of handle_commands: handle_command reads a frame,
\* parses it and handles it; an error that is not Finished or Replicated is
\* written as Resp::Err.  A write command that succeeded is propagated:
\* Master::propagate adds its length to repl_offset, and sent keeps the
\* frames it was called with, in the order of the calls.
TxHandleCommand(c, f) ==
    /\ sess[c].pc = "idle"
    /\ hist.issued < MaxTxCmds
    /\ LET cmd == CommandParseTx(f)
           s == sess[c]
           direct == ApplyCommands(db, cmd, s.transaction)
           exec == ApplyExec(db, s.queued)
           len(frames) == SumSeq([i \in 1..Len(frames) |-> RespLen(frames[i])])
       IN CASE cmd.kind = "Panic" ->
                 /\ sess' = [sess EXCEPT ![c].pc = "panicked"]
                 /\ hist' = Handled(c, f, <<>>, <<>>)
                 /\ UNCHANGED <<db, repl_offset, sent>>
            [] cmd.kind = "Error" ->
                 /\ hist' = Handled(c, f, <<Resp("Err", ParseErrorText(f))>>, <<>>)
                 /\ UNCHANGED <<db, repl_offset, sess, sent>>
            [] cmd.kind \notin {"Panic", "Error"} /\ s.transaction /\ cmd.kind = "Exec" ->
                 /\ db' = exec.db
                 /\ repl_offset' = repl_offset + len(Propagated(s.queued, exec.queue_res))
                 /\ sent' = sent \o Propagated(s.queued, exec.queue_res)
                 /\ sess' = [sess EXCEPT ![c] = TxIdle]
                 /\ hist' = Handled(c, f, <<Resp("Array", "")>>, exec.queue_res)
            [] cmd.kind \notin {"Panic", "Error"} /\ s.transaction /\ Queues(cmd) ->
                 /\ sess' = [sess EXCEPT ![c].queued = Append(@, f)]
                 /\ hist' = Handled(c, f, <<Resp("Simple", "QUEUED")>>, <<>>)
                 /\ UNCHANGED <<db, repl_offset, sent>>
            [] s.transaction /\ cmd.kind = "Multi" /\ ~Queues(cmd) ->
                 /\ hist' = Handled(c, f, <<Resp("Err", "ERR MULTI calls can not be nested")>>, <<>>)
                 /\ UNCHANGED <<db, repl_offset, sess, sent>>
            [] s.transaction /\ cmd.kind = "Discard" /\ ~Queues(cmd) ->
                 /\ sess' = [sess EXCEPT ![c] = TxIdle]
                 /\ hist' = Handled(c, f, <<Resp("Simple", "OK")>>, <<>>)
                 /\ UNCHANGED <<db, repl_offset, sent>>
            [] OTHER ->
                 /\ db' = direct.db
                 /\ repl_offset' = repl_offset + len(Propagated(<<f>>, <<direct.resp>>))
                 /\ sent' = sent \o Propagated(<<f>>, <<direct.resp>>)
                 /\ sess' = [sess EXCEPT ![c].transaction = direct.transaction]
                 /\ hist' = Handled(c, f, <<direct.resp>>, <<>>)
    /\ UNCHANGED <<slaves, lock, acks, rstate, roffset, rdb, rread>>

\* the client closes the connection: handler.read returns None, handle_command
\* CommandError::Finished, and the loop returns; the session's state is dropped
TxFinished(c) ==
    /\ sess[c].pc = "idle"
    /\ sess' = [sess EXCEPT ![c] = [TxIdle EXCEPT !.pc = "finished"]]
    /\ UNCHANGED <<db, repl_offset, slaves, lock, sent, acks, rstate, roffset, rdb, rread, hist>>

InitTx ==
    /\ db = EmptyDb
    /\ repl_offset = 0
    /\ slaves = <<>>
    /\ lock = NoOne
    /\ sess = [c \in {TxClient} |-> TxIdle]
    /\ sent = <<>>
    /\ acks = <<>>
    /\ rstate = <<>>
    /\ roffset = <<>>
    /\ rdb = <<>>
    /\ rread = <<>>
    /\ hist = [issued |-> 0, f |-> <<>>, transaction |-> FALSE, queued |-> <<>>,
               recv |-> <<>>, db |-> EmptyDb, offset |-> 0, written |-> <<>>, elems |-> <<>>,
               nested |-> FALSE]

NextTx ==
    \/ \E f \in TxFrames : TxHandleCommand(TxClient, f)
    \/ TxFinished(TxClient)

SpecTx == InitTx /\ [][NextTx]_vars

-----------------------------------------------------------------------------
(* SpecXadd: XADD calls on the one key of a store, with the wall clock. db   *)
(* is the store; hist holds the clock (now, in ticks), the number of calls,  *)
(* and of the last call the id argument, the stream before it, whether it    *)
(* succeeded and the id it chose, and the ids of the succeeding calls in the *)
(* order of the calls; the other variables keep their initial values.        *)

MaxXadds == 3
MaxClock == 5

StreamKey == "k"

\* the ids of the entries of d[key], {} when the key is absent
StreamIds(d, key) == IF d[key] = NoValue THEN {} ELSE d[key].ids

\* Xadd::execute for the request XADD k <id> f v, read and executed while the
\* clock shows hist.now
XaddCall(id) ==
    /\ hist.calls < MaxXadds
    /\ LET cmd == CommandParse(<<"XADD", StreamKey, id, "f", "v">>)
           ids == StreamIds(db, StreamKey)
           spec == IF cmd.kind = "Xadd" /\ cmd.id.kind = "Auto"
                   THEN [cmd.id EXCEPT !.ms = hist.now] ELSE cmd.id
       IN IF cmd.kind # "Xadd"
          THEN /\ hist' = [hist EXCEPT !.calls = @ + 1, !.arg = id, !.before = ids,
                                       !.ok = FALSE, !.id = <<0, 0>>]
               /\ UNCHANGED db
          ELSE LET r == DbXadd(db, StreamKey, spec)
                   gen == auto_generate(spec, ids)
               IN /\ db' = r.db
                  /\ hist' = [hist EXCEPT !.calls = @ + 1, !.arg = id, !.before = ids,
                                          !.ok = r.ok,
                                          !.id = IF r.ok THEN gen.id ELSE <<0, 0>>,
                                          !.chosen = IF r.ok THEN Append(@, gen.id) ELSE @]
    /\ UNCHANGED <<repl_offset, slaves, lock, sess, sent, acks, rstate, roffset, rdb, rread>>

\* time passes
ClockTick ==
    /\ hist.now < MaxClock
    /\ hist' = [hist EXCEPT !.now = @ + 1]
    /\ UNCHANGED <<db, repl_offset, slaves, lock, sess, sent, acks, rstate, roffset, rdb, rread>>

InitXadd ==
    /\ db = EmptyDb
    /\ repl_offset = 0
    /\ slaves = <<>>
    /\ lock = NoOne
    /\ sess = <<>>
    /\ sent = <<>>
    /\ acks = <<>>
    /\ rstate = <<>>
    /\ roffset = <<>>
    /\ rdb = <<>>
    /\ rread = <<>>
    /\ hist = [now |-> TicksPerMs, calls |-> 0, arg |-> "", before |-> {}, ok |-> FALSE,
               id |-> <<0, 0>>, chosen |-> <<>>]

NextXadd ==
    \/ \E id \in XaddIds : XaddCall(id)
    \/ ClockTick

SpecXadd == InitXadd /\ [][NextXadd]_vars

-----------------------------------------------------------------------------
(* SpecRead: one client session reading requests from its connection. The   *)
(* bytes are kept as a sequence of chunks, each a string (a type byte, the  *)
(* digits of a length, a payload, or the two bytes CRLF); the requests of   *)
(* the model are such that Resp::check always advances by whole chunks.     *)
(* sess[c] is the record [pc, buf] with Handler.buf; hist counts the valid  *)
(* requests sent and answered, and keeps the parity of the error replies    *)
(* written; the other variables keep their initial values.                  *)

MaxSends == 3

\* the request PING; and +OK (a frame, but no request), an array whose
\* length is not a number, and PING with a bulk whose length is not a number
PingBytes == <<"*", "1", "\r\n", "$", "4", "\r\n", "PING", "\r\n">>
BadBytes ==
    { <<"+", "OK", "\r\n">>, <<"*", "x", "\r\n">>,
      <<"*", "1", "\r\n", "$", "x", "\r\n", "PING", "\r\n">> }

\* read_line: the index of the first CRLF at or after pos, 0 when there is none
LineEnd(buf, pos) ==
    IF \E i \in pos..Len(buf) : buf[i] = "\r\n"
    THEN CHOOSE i \in pos..Len(buf) : buf[i] = "\r\n" /\ \A j \in pos..(i - 1) : buf[j] # "\r\n"
    ELSE 0

\* advance(n) from the chunk at pos: the index behind the n bytes, 0 when
\* fewer than n bytes remain
Advance(buf, pos, n) ==
    LET bytes(k) == SumSeq([i \in 1..(k - pos) |-> Len(buf[pos + i - 1])])
    IN IF \E k \in pos..(Len(buf) + 1) : bytes(k) = n
       THEN CHOOSE k \in pos..(Len(buf) + 1) : bytes(k) = n
       ELSE 0

\* Resp::check on n values from the chunk at pos (the elements of an array
\* are checked like the values that follow it): Ok and the index behind the
\* values, Incomplete, Error (a length slice_to_int rejects) or Panic
\* (unimplemented!() on any other type byte, and the slice chunk()[..2] behind
\* a $ that fewer than two bytes follow)
RECURSIVE RespCheck(_, _, _)
RespCheck(buf, pos, n) ==
    IF n = 0 THEN [res |-> "Ok", pos |-> pos]
    ELSE IF pos > Len(buf) THEN [res |-> "Incomplete", pos |-> pos]
    ELSE LET e == LineEnd(buf, pos + 1)
             len == IF e = pos + 2 THEN slice_to_int(buf[pos + 1]) ELSE NotInt
         IN CASE buf[pos] = "*" ->
                   IF e = 0 THEN [res |-> "Incomplete", pos |-> pos]
                   ELSE IF len = NotInt THEN [res |-> "Error", pos |-> pos]
                   ELSE RespCheck(buf, e + 1, n - 1 + len)
              [] buf[pos] \in {"+", ":"} ->
                   IF e = 0 THEN [res |-> "Incomplete", pos |-> pos]
                   ELSE RespCheck(buf, e + 1, n - 1)
              [] buf[pos] = "$" ->
                   IF SumSeq([i \in 1..(Len(buf) - pos) |-> Len(buf[pos + i])]) < 2
                   THEN [res |-> "Panic", pos |-> pos]
                   ELSE IF buf[pos + 1] = "-1"
                   THEN IF Advance(buf, pos + 1, Len("-1\r\n")) = 0
                        THEN [res |-> "Incomplete", pos |-> pos]
                        ELSE RespCheck(buf, Advance(buf, pos + 1, Len("-1\r\n")), n - 1)
                   ELSE IF e = 0 THEN [res |-> "Incomplete", pos |-> pos]
                   ELSE IF len = NotInt THEN [res |-> "Error", pos |-> pos]
                   ELSE IF Advance(buf, e + 1, len + CRLF_LEN) = 0
                   THEN [res |-> "Incomplete", pos |-> pos]
                   ELSE RespCheck(buf, Advance(buf, e + 1, len + CRLF_LEN), n - 1)
              [] OTHER -> [res |-> "Panic", pos |-> pos]

\* Resp::parse on a checked array of bulk strings: the payloads
RespParse(frame) ==
    LET at == {i \in 4..Len(frame) : frame[i - 3] = "$"}
        nth(k) == CHOOSE i \in at : Cardinality({j \in at : j < i}) = k - 1
    IN [k \in 1..Cardinality(at) |-> frame[nth(k)]]

\* the client writes a request; valid tells whether it is PING
ClientSends(c, bytes) ==
    /\ sess[c].pc = "idle"
    /\ hist.sends < MaxSends
    /\ sess' = [sess EXCEPT ![c].buf = @ \o bytes]
    /\ hist' = [hist EXCEPT !.sends = @ + 1,
                            !.valid = IF bytes = PingBytes THEN @ + 1 ELSE @]
    /\ UNCHANGED <<db, repl_offset, slaves, lock, sent, acks, rstate, roffset, rdb, rread>>

\* one turn of the loop of handle_commands with bytes in Handler.buf:
\* Handler::read calls Handler::parse, which checks the buffer and, when the
\* check is Ok, parses the frame and advances the buffer behind it; the
\* command is executed and answered. An error of the check leaves read and
\* handle_command with `?`, and handle_commands writes it as Resp::Err.
ReadTurn(c) ==
    /\ sess[c].pc = "idle"
    /\ sess[c].buf # <<>>
    /\ LET buf == sess[c].buf
           chk == RespCheck(buf, 1, 1)
           cmd == CommandParse(RespParse(SubSeq(buf, 1, chk.pos - 1)))
       IN CASE chk.res = "Ok" /\ cmd.kind = "Ping" ->
                 /\ sess' = [sess EXCEPT ![c].buf = SubSeq(buf, chk.pos, Len(buf))]
                 /\ hist' = [hist EXCEPT !.answered = @ + 1]
            [] chk.res = "Ok" /\ cmd.kind # "Ping" ->
                 /\ sess' = [sess EXCEPT ![c].buf = SubSeq(buf, chk.pos, Len(buf))]
                 /\ hist' = [hist EXCEPT !.errs = 1 - @]
            [] chk.res = "Error" ->
                 /\ hist' = [hist EXCEPT !.errs = 1 - @]
                 /\ UNCHANGED sess
            [] chk.res = "Panic" ->
                 /\ sess' = [sess EXCEPT ![c].pc = "panicked"]
                 /\ UNCHANGED hist
            [] OTHER -> FALSE
    /\ UNCHANGED <<db, repl_offset, slaves, lock, sent, acks, rstate, roffset, rdb, rread>>

InitRead ==
    /\ db = EmptyDb
    /\ repl_offset = 0
    /\ slaves = <<>>
    /\ lock = NoOne
    /\ sess = [c \in {TxClient} |-> [pc |-> "idle", buf |-> <<>>]]
    /\ sent = <<>>
    /\ acks = <<>>
    /\ rstate = <<>>
    /\ roffset = <<>>
    /\ rdb = <<>>
    /\ rread = <<>>
    /\ hist = [sends |-> 0, valid |-> 0, answered |-> 0, errs |-> 0]

NextRead ==
    \/ \E bytes \in {PingBytes} \cup BadBytes : ClientSends(TxClient, bytes)
    \/ ReadTurn(TxClient)

\* the session's task is scheduled whenever it can run; nothing makes the
\* client send
SpecRead == InitRead /\ [][NextRead]_vars /\ WF_vars(ReadTurn(TxClient))

-----------------------------------------------------------------------------
(* SpecXread: a session that calls XREAD on the key k while other sessions  *)
(* append to it. db is the store, sent the watch channel DB.added_stream    *)
(* (its value and its version), sess the state of the calling session and   *)
(* hist the number of calls and appends; the other variables keep their     *)
(* initial values. In sess, floor is the lower bound of the call (for $ the *)
(* top of the stream when the call began, (0, 0) for an empty stream) and   *)
(* store the ids in the stream when the reply was computed.                 *)

MaxXreads == 2
MaxAppends == 3

\* the ids of a set that are above the id floor
Above(ids, floor) == {i \in ids : ~IdLeq(i, floor)}

\* iter_with_count: the first count ids of the set in BTreeMap order, all of
\* them for count None (here 0)
Take(ids, count) ==
    IF count = 0 THEN ids
    ELSE {i \in ids : Cardinality({j \in ids : IdLeq(j, i) /\ j # i}) < count}

\* first_unblocked: the notification ends the wait, for Top always and for
\* NotTop(id) unless added_id < id
Passes(lower, added_id) ==
    lower = "$" \/ IdLeq(<<ParseTable[lower].ms, ParseTable[lower].seq>>, added_id)

XreadIdle ==
    [pc |-> "idle", lower |-> "$", block |-> "none", count |-> 0, floor |-> <<0, 0>>,
     seen |-> 0, added |-> <<0, 0>>, reply |-> "none", ids |-> {}, store |-> {}]

\* handler.write(&resp) at the end of Xread::execute: Null, or the entries
XreadReply(s, null, ids) ==
    [s EXCEPT !.pc = "idle", !.reply = IF null THEN "Null" ELSE "Entries", !.ids = ids,
              !.store = StreamIds(db, StreamKey)]

\* XREAD [BLOCK block] [COUNT count] STREAMS k lower, up to the end of
\* get_keys_entries: the reply when entries were found or BLOCK is absent,
\* else the tasks of first_unblocked are spawned
XreadCall(lower, block, count) ==
    /\ sess.pc = "idle"
    /\ hist.calls < MaxXreads
    /\ LET ids == StreamIds(db, StreamKey)
           floor == IF lower # "$" THEN <<ParseTable[lower].ms, ParseTable[lower].seq>>
                    ELSE IF ids = {} THEN <<0, 0>> ELSE LastId(ids)
           found == IF lower = "$" THEN {} ELSE Take(Above(ids, floor), count)
           s == [XreadIdle EXCEPT !.lower = lower, !.block = block, !.count = count,
                                  !.floor = floor]
       IN sess' = IF found # {} THEN XreadReply(s, FALSE, found)
                  ELSE IF block = "none" THEN XreadReply(s, TRUE, {})
                  ELSE [s EXCEPT !.pc = "spawned"]
    /\ hist' = [hist EXCEPT !.calls = @ + 1]
    /\ UNCHANGED <<db, repl_offset, slaves, lock, sent, acks, rstate, roffset, rdb, rread>>

\* the task of first_unblocked starts: DB.added_stream.subscribe(), which
\* marks the value the channel holds as seen
Subscribe ==
    /\ sess.pc = "spawned"
    /\ sess' = [sess EXCEPT !.pc = "waiting", !.seen = sent.version]
    /\ UNCHANGED <<db, repl_offset, slaves, lock, sent, acks, rstate, roffset, rdb, rread, hist>>

\* rx.changed() returns and borrow_and_update yields the latest value
Changed ==
    /\ sess.pc = "waiting"
    /\ sent.version # sess.seen
    /\ sess' = IF Passes(sess.lower, sent.value)
               THEN [sess EXCEPT !.pc = "unblocked", !.seen = sent.version, !.added = sent.value]
               ELSE [sess EXCEPT !.seen = sent.version]
    /\ UNCHANGED <<db, repl_offset, slaves, lock, sent, acks, rstate, roffset, rdb, rread, hist>>

\* apply_and_respond after first_unblocked returned Some((key, id)): the
\* entries of the stream from id on
Unblocked ==
    /\ sess.pc = "unblocked"
    /\ sess' = XreadReply(sess, FALSE,
                          Take({i \in StreamIds(db, StreamKey) : IdLeq(sess.added, i)}, sess.count))
    /\ UNCHANGED <<db, repl_offset, slaves, lock, sent, acks, rstate, roffset, rdb, rread, hist>>

\* the sleep of first_unblocked ends first (it is not polled for BLOCK 0)
TimedOut ==
    /\ sess.pc \in {"spawned", "waiting"}
    /\ sess.block = "1000"
    /\ sess' = XreadReply(sess, TRUE, {})
    /\ UNCHANGED <<db, repl_offset, slaves, lock, sent, acks, rstate, roffset, rdb, rread, hist>>

\* Db::xadd by another session: the entry is inserted, then (key, id) is sent
\* on the channel
Appends(id) ==
    /\ hist.appends < MaxAppends
    /\ LET r == DbXadd(db, StreamKey, ParseStreamId(id))
       IN /\ r.ok
          /\ db' = r.db
          /\ sent' = [value |-> auto_generate(ParseStreamId(id), StreamIds(db, StreamKey)).id,
                      version |-> sent.version + 1]
    /\ hist' = [hist EXCEPT !.appends = @ + 1]
    /\ UNCHANGED <<repl_offset, slaves, lock, sess, acks, rstate, roffset, rdb, rread>>

InitXread ==
    /\ db = EmptyDb
    /\ repl_offset = 0
    /\ slaves = <<>>
    /\ lock = NoOne
    /\ sess = XreadIdle
    /\ sent = [value |-> <<0, 0>>, version |-> 0]
    /\ acks = <<>>
    /\ rstate = <<>>
    /\ roffset = <<>>
    /\ rdb = <<>>
    /\ rread = <<>>
    /\ hist = [calls |-> 0, appends |-> 0]

NextXread ==
    \/ \E lower \in {"$", "0-0", "1-0"}, block \in {"none", "0", "1000"}, count \in {0, 1} :
          XreadCall(lower, block, count)
    \/ Subscribe
    \/ Changed
    \/ Unblocked
    \/ TimedOut
    \/ \E id \in {"1-0", "1-1", "2-0", "1-*"} : Appends(id)

SpecXread == InitXread /\ [][NextXread]_vars

-----------------------------------------------------------------------------
(* SpecStore: the keyed store with expiry, db/mod.rs and the commands that
   reach it.  db holds the v_type of each key's Value and roffset its
   expiration (0 for None); sess holds, per session, the INCR it has issued
   and its answer; hist holds the clock, the last operation and its answer
   (a tick of the clock forgets which operation was the last).  Each
   operation is one step, it runs under the store's lock; but GET on an
   expired entry is two, Db::get giving up the lock in between. *)

\* operations other than INCR in one behaviour of SpecStore
MaxStoreOps == 2

\* the last instant of the clock
MaxNow == 1

IncrSessions == {"c1", "c2", "c3"}

\* Value::expiration has passed: exp <= SystemTime::now()
Expired(exp, k, now) == exp[k] # 0 /\ exp[k] <= now

StoreDone(op, keys, reply) ==
    hist' = [hist EXCEPT !.ops = IF op = "INCR" THEN @ ELSE @ + 1,
                         !.op = op, !.keys = keys, !.reply = reply,
                         !.touched = IF op \in {"INCR", "TYPE"} THEN @
                                     ELSE @ \cup {keys[i] : i \in 1..Len(keys)}]

\* SET key value [PX px]: Set::new, Db::set
StoreSet(k, v, px) ==
    /\ hist.ops < MaxStoreOps
    /\ db' = DbSet(db, k, v)
    /\ roffset' = [roffset EXCEPT ![k] = IF px = 0 THEN 0 ELSE hist.now + px]
    /\ StoreDone("SET", <<k>>, Resp("Simple", "OK"))
    /\ UNCHANGED <<repl_offset, slaves, lock, sess, sent, acks, rstate, rdb, rread>>

\* GET key: Db::get under the read lock, and Get::apply_and_respond. On an
\* entry whose expiration has passed Db::get drops the read lock and goes on
\* to StoreGetDel; one session runs GET at a time, rstate holds its key then.
StoreGet(k) ==
    /\ hist.ops < MaxStoreOps
    /\ rstate = <<>>
    /\ IF db[k] # NoValue /\ Expired(roffset, k, hist.now)
       THEN /\ rstate' = <<k>>
            /\ UNCHANGED hist
       ELSE /\ StoreDone("GET", <<k>>,
                         IF db[k] = NoValue THEN Resp("Null", "")
                         ELSE IF db[k].t = "string" THEN Resp("Bulk", db[k].v)
                         ELSE Resp("Err", "Invalid type"))
            /\ UNCHANGED rstate
    /\ UNCHANGED <<db, repl_offset, slaves, lock, sess, sent, acks, roffset, rdb, rread>>

\* Db::get after drop(lock): self.del(once(k)) under the write lock, whatever
\* the entry of k is by now, and None
StoreGetDel ==
    /\ rstate # <<>>
    /\ db' = DbDel(db, rstate).db
    /\ roffset' = [roffset EXCEPT ![rstate[1]] = 0]
    /\ rstate' = <<>>
    /\ StoreDone("GET", rstate, Resp("Null", ""))
    /\ UNCHANGED <<repl_offset, slaves, lock, sess, sent, acks, rdb, rread>>

\* TYPE key: Type::apply_and_respond reads the map itself
StoreType(k) ==
    /\ hist.ops < MaxStoreOps
    /\ StoreDone("TYPE", <<k>>, Resp("Simple", db[k].t))
    /\ UNCHANGED <<db, repl_offset, slaves, lock, sess, sent, acks, rstate, roffset, rdb, rread>>

\* INCR key by a session that has not yet issued one: Incr::apply
StoreIncr(c, k) ==
    /\ ~sess[c].done
    /\ LET r == DbIncr(db, k)
       IN /\ db' = r.db
          /\ sess' = [sess EXCEPT ![c] = [done |-> TRUE, key |-> k, ok |-> r.ok, val |-> r.val]]
          /\ StoreDone("INCR", <<k>>,
                       IF r.ok THEN Resp("Integer", ToString(r.val))
                       ELSE Resp("Err", "ERR"))
    /\ UNCHANGED <<repl_offset, slaves, lock, sent, acks, rstate, roffset, rdb, rread>>

\* DEL keys: Db::del
StoreDel(keys) ==
    /\ hist.ops < MaxStoreOps
    /\ db' = DbDel(db, keys).db
    /\ roffset' = [k \in Keys |-> IF db'[k] = NoValue THEN 0 ELSE roffset[k]]
    /\ StoreDone("DEL", keys, Resp("Integer", ToString(DbDel(db, keys).count)))
    /\ UNCHANGED <<repl_offset, slaves, lock, sess, sent, acks, rstate, rdb, rread>>

\* XADD key 1-1 f v: Db::xadd
StoreXadd(k) ==
    /\ hist.ops < MaxStoreOps
    /\ LET r == DbXadd(db, k, ParseStreamId("1-1"))
       IN /\ db' = r.db
          /\ StoreDone("XADD", <<k>>, IF r.ok THEN Resp("Bulk", "1-1") ELSE Resp("Err", "ERR"))
    /\ UNCHANGED <<repl_offset, slaves, lock, sess, sent, acks, rstate, roffset, rdb, rread>>

\* time passes
StoreTick ==
    /\ hist.now < MaxNow
    /\ hist' = [hist EXCEPT !.now = @ + 1, !.op = "TICK"]
    /\ UNCHANGED <<db, repl_offset, slaves, lock, sess, sent, acks, rstate, roffset, rdb, rread>>

InitStore ==
    /\ db = EmptyDb
    /\ repl_offset = 0
    /\ slaves = <<>>
    /\ lock = NoOne
    /\ sess = [c \in IncrSessions |-> [done |-> FALSE, key |-> "", ok |-> FALSE, val |-> 0]]
    /\ sent = <<>>
    /\ acks = <<>>
    /\ rstate = <<>>
    /\ roffset = [k \in Keys |-> 0]
    /\ rdb = <<>>
    /\ rread = <<>>
    /\ hist = [now |-> 0, ops |-> 0, op |-> "", keys |-> <<>>, reply |-> Resp("Null", ""),
               touched |-> {}]

NextStore ==
    \/ \E k \in Keys, v \in {"a", "1x", "399"}, px \in {0, 1} : StoreSet(k, v, px)
    \/ \E k \in Keys : StoreGet(k)
    \/ StoreGetDel
    \/ \E k \in Keys : StoreType(k)
    \/ \E c \in IncrSessions, k \in Keys : StoreIncr(c, k)
    \/ \E keys \in {<<"k">>, <<"j">>, <<"k", "j">>, <<"k", "k">>} : StoreDel(keys)
    \/ \E k \in Keys : StoreXadd(k)
    \/ StoreTick

SpecStore == InitStore /\ [][NextStore]_vars

-----------------------------------------------------------------------------
(* SpecWire: frames of every kind on one connection, written by the peer
   with Handler::write and read with Handler::read.  A frame is a record:
   [t, v] with v a string for Simple, Err, Bulk and Null, [t, n] with n an
   integer for Integer, [t, elems] with elems a sequence of frames for Array.
   Bytes are a sequence of chunks as in SpecRead.  sent holds the bytes
   written and not yet read from the socket; sess is the reader: pc, its
   Handler.buf, the frames read has returned (got) and whether read has
   returned None; hist holds the frames written and whether the peer closed. *)

\* frames the peer writes in one behaviour of SpecWire
MaxWire == 2

WireFrames ==
    LET bulk(b) == Resp("Bulk", b)
        int(n) == [t |-> "Integer", n |-> n]
        array(e) == [t |-> "Array", elems |-> e]
    IN { Resp("Simple", "OK"), Resp("Err", "ERR x"), int(0 - 12), int(0), int(7),
         bulk("PING"), bulk(""), bulk("hello world!"), Resp("Null", ""),
         array(<<>>), array(<<bulk("PING")>>), array(<<bulk("SET"), bulk("k"), int(7)>>),
         array(<<array(<<Resp("Simple", "OK"), Resp("Null", "")>>), bulk("")>>) }

RECURSIVE WriteResp(_)
\* Handler::write of each frame of fs in turn: the bytes on the socket
WriteResp(fs) ==
    IF fs = <<>> THEN <<>>
    ELSE LET f == Head(fs)
             bytes == CASE f.t = "Simple" -> <<"+", f.v, "\r\n">>
                        [] f.t = "Err" -> <<"-", f.v, "\r\n">>
                        [] f.t = "Bulk" -> <<"$", ToString(Len(f.v)), "\r\n", f.v, "\r\n">>
                        [] f.t = "Array" ->
                             <<"*", ToString(Len(f.elems)), "\r\n">> \o WriteResp(f.elems)
                        [] f.t = "Integer" -> <<":", ToString(f.n), "\r\n">>
                        [] f.t = "Null" -> <<"$", "-1", "\r\n">>
                        [] f.t = "Data" -> <<"$", ToString(Len(f.v)), "\r\n", f.v>>
         IN bytes \o WriteResp(Tail(fs))

RECURSIVE LenResp(_)
\* Resp::len, summed over the frames of fs (an error is written by write_simple
\* like a simple string and is counted like one)
LenResp(fs) ==
    IF fs = <<>> THEN 0
    ELSE LET f == Head(fs)
             len == CASE f.t \in {"Simple", "Err"} -> Len(f.v) + CRLF_LEN
                      [] f.t = "Bulk" -> int_len(Len(f.v)) + CRLF_LEN + Len(f.v) + CRLF_LEN
                      [] f.t = "Array" -> int_len(Len(f.elems)) + CRLF_LEN + LenResp(f.elems)
                      [] f.t = "Integer" ->
                           (IF f.n < 0 THEN 1 ELSE 0)
                           + int_len(IF f.n < 0 THEN 0 - f.n ELSE f.n) + CRLF_LEN
                      [] f.t = "Null" -> Len("-1") + CRLF_LEN
                      [] f.t = "Data" -> int_len(Len(f.v)) + CRLF_LEN + Len(f.v)
         IN 1 + len + LenResp(Tail(fs))

RECURSIVE ParseResp(_, _, _)
\* Resp::parse of n values from the chunk at pos of a buffer that Resp::check
\* accepted: Ok with the values and the index behind them, Error (a number
\* slice_to_int rejects) or Panic (unimplemented!() on any other type byte)
ParseResp(buf, pos, n) ==
    IF n = 0 THEN [res |-> "Ok", elems |-> <<>>, pos |-> pos]
    ELSE LET e == LineEnd(buf, pos + 1)
             line == buf[pos + 1]
             ints == {i \in (0 - 400)..400 : ToString(i) = line}
             inner == ParseResp(buf, e + 1, slice_to_int(line))
             first ==
                 CASE buf[pos] = "*" ->
                        IF slice_to_int(line) = NotInt
                        THEN [res |-> "Error", elems |-> <<>>, pos |-> pos]
                        ELSE [res |-> inner.res, pos |-> inner.pos,
                              elems |-> <<[t |-> "Array", elems |-> inner.elems]>>]
                   [] buf[pos] = "+" ->
                        [res |-> "Ok", elems |-> <<Resp("Simple", line)>>, pos |-> e + 1]
                   [] buf[pos] = "$" /\ line = "-1" ->
                        [res |-> "Ok", elems |-> <<Resp("Null", "")>>, pos |-> e + 1]
                   [] buf[pos] = "$" /\ line # "-1" ->
                        IF slice_to_int(line) = NotInt
                        THEN [res |-> "Error", elems |-> <<>>, pos |-> pos]
                        ELSE [res |-> "Ok", elems |-> <<Resp("Bulk", buf[e + 1])>>,
                              pos |-> Advance(buf, e + 1, slice_to_int(line) + CRLF_LEN)]
                   [] buf[pos] = ":" ->
                        IF ints = {} THEN [res |-> "Error", elems |-> <<>>, pos |-> pos]
                        ELSE [res |-> "Ok", pos |-> e + 1,
                              elems |-> <<[t |-> "Integer", n |-> CHOOSE i \in ints : TRUE]>>]
                   [] OTHER -> [res |-> "Panic", elems |-> <<>>, pos |-> pos]
         IN IF first.res # "Ok" THEN first
            ELSE LET rest == ParseResp(buf, first.pos, n - 1)
                 IN [res |-> rest.res, elems |-> first.elems \o rest.elems, pos |-> rest.pos]

\* the peer writes a frame: Handler::write
PeerWrites(f) ==
    /\ ~hist.closed
    /\ Len(hist.frames) < MaxWire
    /\ sent' = sent \o WriteResp(<<f>>)
    /\ hist' = [hist EXCEPT !.frames = Append(@, f)]
    /\ UNCHANGED <<db, repl_offset, slaves, lock, sess, acks, rstate, roffset, rdb, rread>>

\* the peer closes the connection
PeerCloses ==
    /\ ~hist.closed
    /\ hist' = [hist EXCEPT !.closed = TRUE]
    /\ UNCHANGED <<db, repl_offset, slaves, lock, sess, sent, acks, rstate, roffset, rdb, rread>>

\* Handler::read when Handler::parse gave None: read_buf appends what the
\* socket delivers, any part of the bytes in flight, and 0 bytes at the end
\* of the stream, on which read returns None
ReadBuf(n) ==
    /\ sess.pc = "reading"
    /\ sess.buf = <<>> \/ RespCheck(sess.buf, 1, 1).res = "Incomplete"
    /\ IF sent = <<>>
       THEN /\ hist.closed
            /\ sess' = [sess EXCEPT !.pc = "finished"]
            /\ UNCHANGED sent
       ELSE /\ n \in 1..Len(sent)
            /\ sess' = [sess EXCEPT !.buf = @ \o SubSeq(sent, 1, n)]
            /\ sent' = SubSeq(sent, n + 1, Len(sent))
    /\ UNCHANGED <<db, repl_offset, slaves, lock, acks, rstate, roffset, rdb, rread, hist>>

\* Handler::read when Handler::parse finds a frame: Resp::check, Resp::parse
\* from position 0, buf.advance behind the frame
ReadFrame ==
    /\ sess.pc = "reading"
    /\ sess.buf # <<>>
    /\ LET chk == RespCheck(sess.buf, 1, 1)
           resp == ParseResp(sess.buf, 1, 1)
       IN /\ chk.res # "Incomplete"
          /\ sess' = CASE chk.res = "Panic" -> [sess EXCEPT !.pc = "panicked"]
                       [] chk.res = "Error" -> [sess EXCEPT !.pc = "failed"]
                       [] chk.res = "Ok" /\ resp.res = "Ok" ->
                            [sess EXCEPT !.got = @ \o resp.elems,
                                         !.buf = SubSeq(@, chk.pos, Len(@))]
                       [] chk.res = "Ok" /\ resp.res = "Panic" ->
                            [sess EXCEPT !.pc = "panicked", !.buf = SubSeq(@, chk.pos, Len(@))]
                       [] OTHER -> [sess EXCEPT !.pc = "failed", !.buf = SubSeq(@, chk.pos, Len(@))]
    /\ UNCHANGED <<db, repl_offset, slaves, lock, sent, acks, rstate, roffset, rdb, rread, hist>>

InitWire ==
    /\ db = EmptyDb
    /\ repl_offset = 0
    /\ slaves = <<>>
    /\ lock = NoOne
    /\ sess = [pc |-> "reading", buf |-> <<>>, got |-> <<>>]
    /\ sent = <<>>
    /\ acks = <<>>
    /\ rstate = <<>>
    /\ roffset = <<>>
    /\ rdb = <<>>
    /\ rread = <<>>
    /\ hist = [frames |-> <<>>, closed |-> FALSE]

NextWire ==
    \/ \E f \in WireFrames : PeerWrites(f)
    \/ PeerCloses
    \/ \E n \in 1..(Len(sent) + 1) : ReadBuf(n)
    \/ ReadFrame

SpecWire == InitWire /\ [][NextWire]_vars

-----------------------------------------------------------------------------
(* SpecPropagate: Master::propagate over several replica links.  slaves is
   Master.slaves, sent the frames written to each link, rstate whether the
   peer of a link has it open; hist holds the links that were added, the
   number of propagate calls and the write results of the last one. *)

\* propagate calls in one behaviour of SpecPropagate
MaxPropagates == 2

\* Master::add_slave for a link that PSYNC handed over
ReplicaJoins(r) ==
    /\ r \notin hist.joined
    /\ slaves' = add_slave(slaves, r)
    /\ hist' = [hist EXCEPT !.joined = @ \cup {r}]
    /\ UNCHANGED <<db, repl_offset, lock, sess, sent, acks, rstate, roffset, rdb, rread>>

\* the peer of a link closes it
LinkBreaks(r) ==
    /\ rstate[r] = "open"
    /\ rstate' = [rstate EXCEPT ![r] = "closed"]
    /\ UNCHANGED <<db, repl_offset, slaves, lock, sess, sent, acks, roffset, rdb, rread, hist>>

\* Master::propagate of a write command; the write to an open link succeeds,
\* the write to a closed one succeeds or fails with any of the error kinds
PropagateFrame(f, res) ==
    /\ hist.n < MaxPropagates
    /\ \A i \in 1..Len(slaves) : rstate[slaves[i].conn] = "open" => res[i] = "Ok"
    /\ MasterPropagate(f, TRUE, res, 0)
    /\ hist' = [hist EXCEPT !.n = @ + 1, !.res = res]
    /\ UNCHANGED <<db, lock, sess, acks, rstate, roffset, rdb, rread>>

InitPropagate ==
    /\ db = EmptyDb
    /\ repl_offset = 0
    /\ slaves = <<>>
    /\ lock = NoOne
    /\ sess = <<>>
    /\ sent = [r \in {"r1", "r2", "r3"} |-> <<>>]
    /\ acks = <<>>
    /\ rstate = [r \in {"r1", "r2", "r3"} |-> "open"]
    /\ roffset = <<>>
    /\ rdb = <<>>
    /\ rread = <<>>
    /\ hist = [joined |-> {}, n |-> 0, res |-> <<>>]

NextPropagate ==
    \/ \E r \in DOMAIN sent : ReplicaJoins(r)
    \/ \E r \in DOMAIN sent : LinkBreaks(r)
    \/ \E f \in {<<"SET", "k", "1">>, <<"DEL", "k">>} :
         \E res \in [1..Len(slaves) -> {"Ok", "ConnectionAborted", "UnexpectedEof",
                                        "ConnectionReset", "BrokenPipe"}] :
             PropagateFrame(f, res)

SpecPropagate == InitPropagate /\ [][NextPropagate]_vars

-----------------------------------------------------------------------------
(* SpecSync: the replica's handshake from the reply to PSYNC on, and its
   apply loop, on the bytes of the link.  The primary has written
   +FULLRESYNC and the snapshot (handler.rs, the Psync arm) and goes on to
   write propagated frames.  sent is the bytes in flight, sess the replica's
   Handler ([pc, buf, got] as in SpecWire, got the frames its reads returned),
   rstate the position of Slave::connect, rdb the snapshot bytes handed to
   Rdb::parse, roffset Slave.offset; hist as in SpecWire. *)

\* Psync::execute: the reply to PSYNC and the snapshot, 5 bytes in the model
PsyncExecute == <<Resp("Simple", "FULLRESYNC"), Resp("Data", "REDIS")>>

\* the frames the primary propagates in SpecSync
SyncFrames ==
    { [t |-> "Array", elems |-> [i \in 1..Len(f) |-> Resp("Bulk", f[i])]] :
        f \in { <<"PING">>, <<"DEL", "k">> } }

\* Resp::parse_rdb on the buffer: Error for the bail! and for Incomplete
\* (which `?` turns into the error of the handshake), Panic for the slice
\* chunk()[..len] of a chunk shorter than len, else the data and the index
\* behind it
parse_rdb(buf) ==
    LET e == LineEnd(buf, 2)
        len == IF e = 3 THEN slice_to_int(buf[2]) ELSE NotInt
        remaining == SumSeq([i \in 1..(Len(buf) - e) |-> Len(buf[e + i])])
    IN IF buf = <<>> \/ buf[1] # "$" \/ e = 0 \/ len = NotInt
       THEN [res |-> "Error", data |-> "", pos |-> 1]
       ELSE IF remaining < len \/ Advance(buf, e + 1, len) = 0
       THEN [res |-> "Panic", data |-> "", pos |-> 1]
       ELSE [res |-> "Ok", data |-> IF len = 0 THEN "" ELSE buf[e + 1],
             pos |-> Advance(buf, e + 1, len)]

\* handshake: let recv = handler.read().await?, with a frame in the buffer
SyncReply ==
    /\ rstate = "hs_psync"
    /\ sess.pc = "reading"
    /\ sess.buf # <<>>
    /\ LET chk == RespCheck(sess.buf, 1, 1)
           resp == ParseResp(sess.buf, 1, 1)
       IN /\ chk.res # "Incomplete"
          /\ IF chk.res = "Ok" /\ resp.res = "Ok"
             THEN /\ sess' = [sess EXCEPT !.pc = "rdb", !.got = @ \o resp.elems,
                                          !.buf = SubSeq(@, chk.pos, Len(@))]
                  /\ rstate' = "hs_rdb"
             ELSE /\ sess' = [sess EXCEPT !.pc = "stopped"]
                  /\ rstate' = IF "Panic" \in {chk.res, resp.res} THEN "panicked" ELSE "failed"
    /\ UNCHANGED <<db, repl_offset, slaves, lock, sent, acks, roffset, rdb, rread, hist>>

\* handshake: if handler.buf.is_empty() { handler.read_bytes().await? }, which
\* appends the n values the socket delivers (none at the end of the stream);
\* then parse_rdb, buf.advance, Rdb::parse and apply_rdb
SyncRdb(n) ==
    /\ rstate = "hs_rdb"
    /\ IF sess.buf # <<>> THEN n = 0
       ELSE IF sent = <<>> THEN hist.closed /\ n = 0
       ELSE n \in 1..Len(sent)
    /\ LET buf == sess.buf \o SubSeq(sent, 1, n)
           p == parse_rdb(buf)
       IN /\ sent' = SubSeq(sent, n + 1, Len(sent))
          /\ IF p.res = "Ok"
             THEN /\ sess' = [sess EXCEPT !.pc = "reading", !.buf = SubSeq(buf, p.pos, Len(buf))]
                  /\ rdb' = p.data
                  /\ rstate' = "following"
             ELSE /\ sess' = [sess EXCEPT !.pc = "stopped", !.buf = buf]
                  /\ rstate' = IF p.res = "Panic" THEN "panicked" ELSE "failed"
                  /\ UNCHANGED rdb
    /\ UNCHANGED <<db, repl_offset, slaves, lock, acks, roffset, rread, hist>>

\* one iteration of handle_connection with a frame in the buffer: the frame is
\* read, its command parsed and handled, and its length added to the offset
SyncFrame ==
    /\ rstate = "following"
    /\ sess.pc = "reading"
    /\ sess.buf # <<>>
    /\ LET chk == RespCheck(sess.buf, 1, 1)
           resp == ParseResp(sess.buf, 1, 1)
           f == RespParse(SubSeq(sess.buf, 1, chk.pos - 1))
       IN /\ chk.res # "Incomplete"
          /\ IF chk.res = "Ok" /\ resp.res = "Ok"
             THEN /\ sess' = [sess EXCEPT !.got = @ \o resp.elems,
                                          !.buf = SubSeq(@, chk.pos, Len(@))]
                  /\ roffset' = IF ReachesIncrease(CommandParse(f))
                                THEN roffset + LenResp(resp.elems) ELSE roffset
             ELSE /\ sess' = [sess EXCEPT !.pc = "panicked"]
                  /\ UNCHANGED roffset
    /\ UNCHANGED <<db, repl_offset, slaves, lock, sent, acks, rstate, rdb, rread, hist>>

InitSync ==
    /\ db = EmptyDb
    /\ repl_offset = 0
    /\ slaves = <<>>
    /\ lock = NoOne
    /\ sess = [pc |-> "reading", buf |-> <<>>, got |-> <<>>]
    /\ sent = WriteResp(PsyncExecute)
    /\ acks = <<>>
    /\ rstate = "hs_psync"
    /\ roffset = 0
    /\ rdb = ""
    /\ rread = <<>>
    /\ hist = [frames |-> <<>>, closed |-> FALSE]

NextSync ==
    \/ \E f \in SyncFrames : PeerWrites(f)
    \/ PeerCloses
    \/ \E n \in 1..(Len(sent) + 1) : ReadBuf(n)
    \/ SyncReply
    \/ \E n \in 0..Len(sent) : SyncRdb(n)
    \/ SyncFrame

SpecSync == InitSync /\ [][NextSync]_vars

-----------------------------------------------------------------------------
(* SpecExec: a session inside apply_exec while other sessions of the same
   primary go on.  The session has read EXEC with its transaction flag set
   and has taken its queue; sess holds the part of the queue not yet
   executed (queue), the results so far (queue_res) and whether the reply
   was written; db is the store.  hist keeps the whole queue, the store as
   it was when EXEC began and the number of commands of other sessions. *)

\* commands of other sessions in one behaviour of SpecExec
MaxOthers == 2

\* the requests that are queued, or sent by the other sessions
ExecFrames == { <<"SET", "k", "1">>, <<"INCR", "k">>, <<"GET", "k">>, <<"DEL", "k">> }

\* apply_exec: one turn of the loop, apply_commands(parsed_cmd, raw_cmd).await
\* with unwrap_or_else and queue_res.push
ExecApply ==
    /\ sess.queue # <<>>
    /\ LET r == ApplyCommands(db, CommandParseTx(Head(sess.queue)), TRUE)
       IN /\ db' = r.db
          /\ sess' = [sess EXCEPT !.queue = Tail(@), !.queue_res = Append(@, r.resp)]
    /\ UNCHANGED <<repl_offset, slaves, lock, sent, acks, rstate, roffset, rdb, rread, hist>>

\* apply_exec after the loop: self.transaction = false and the array is written
ExecReply ==
    /\ sess.queue = <<>>
    /\ ~sess.replied
    /\ sess' = [sess EXCEPT !.replied = TRUE]
    /\ UNCHANGED <<db, repl_offset, slaves, lock, sent, acks, rstate, roffset, rdb, rread, hist>>

\* handle_command of another session, outside a transaction: apply_commands
OtherSession(f) ==
    /\ hist.others < MaxOthers
    /\ db' = ApplyCommands(db, CommandParseTx(f), FALSE).db
    /\ hist' = [hist EXCEPT !.others = @ + 1]
    /\ UNCHANGED <<repl_offset, slaves, lock, sess, sent, acks, rstate, roffset, rdb, rread>>

\* let queue = std::mem::take(&mut self.queued), for the queues of two requests
InitExec ==
    /\ db = EmptyDb
    /\ repl_offset = 0
    /\ slaves = <<>>
    /\ lock = NoOne
    /\ \E a \in ExecFrames, b \in ExecFrames :
          /\ sess = [queue |-> <<a, b>>, queue_res |-> <<>>, replied |-> FALSE]
          /\ hist = [queued |-> <<a, b>>, db |-> EmptyDb, others |-> 0]
    /\ sent = <<>>
    /\ acks = <<>>
    /\ rstate = <<>>
    /\ roffset = <<>>
    /\ rdb = <<>>
    /\ rread = <<>>

NextExec ==
    \/ ExecApply
    \/ ExecReply
    \/ \E f \in ExecFrames : OtherSession(f)

SpecExec == InitExec /\ [][NextExec]_vars

-----------------------------------------------------------------------------
(* Properties *)

InList(r) == \E i \in 1..Len(slaves) : slaves[i].conn = r

\* no session of the primary is between two of its steps
Quiescent == \A c \in Clients : sess[c].pc = "idle"

\* the replica of link r follows the primary and has read every frame written
CaughtUp(r) == rstate[r] = "following" /\ rread[r] = Len(sent[r])

\* the bytes of a frame on the wire
WireLen(fr) ==
    CASE fr.t = "Array" -> Len(HandlerWrite(fr.f))
      [] fr.t = "Simple" -> Len(write_simple(fr.f))
      [] OTHER -> 0

RECURSIVE Applied(_, _)
\* the store after the write commands among frames were executed in order on d
Applied(frames, d) ==
    IF frames = <<>> THEN d
    ELSE LET fr == frames[Len(frames)]
             before == Applied(SubSeq(frames, 1, Len(frames) - 1), d)
         IN IF fr.t = "Array" /\ CommandParse(fr.f).kind \in WriteKinds
            THEN Execute(before, CommandParse(fr.f)).db ELSE before

RECURSIVE SumWire(_)
SumWire(frames) == IF frames = <<>> THEN 0 ELSE WireLen(Head(frames)) + SumWire(Tail(frames))

\* the frames replica r has read after the two frames of the PSYNC response
ReadSinceSnapshot(r) == SubSeq(sent[r], 3, rread[r])

\* the sessions that executed a write command and have not propagated it yet
Pending == {sess[c].n : c \in {x \in Clients : sess[x].pc = "propagate"}}

\* the frames the replica of SpecSlave has read after the four replies of the
\* handshake and the snapshot
ReadAfterHandshake == SubSeq(sent[TheSlave], 6, rread[TheSlave])

\* the requests of the handshake and the replies Slave::handshake expects
HandshakeRequests == <<PingFrame, ListeningPortFrame, CapaFrame, PsyncFrame>>
HandshakeReplies ==
    <<SimpleFrame("PONG"), SimpleFrame("OK"), SimpleFrame("OK"), SimpleFrame("FULLRESYNC")>>

\* the frames among frs that parse as REPLCONF GETACK *
GetAcksIn(frs) ==
    {i \in 1..Len(frs) :
        /\ frs[i].t = "Array"
        /\ CommandParse(frs[i].f).kind = "ReplConf"
        /\ CommandParse(frs[i].f).sub = "GetAck"}

\* a WAIT with a timeout that found repl_offset > 0 is under way in session c
WaitingWithTimeout(c) ==
    /\ sess[c].pc \in {"wait_getack", "wait_lock", "wait_scan"}
    /\ CommandParse(sess[c].cmd).timeout > 0

\* session c is back at reading requests and its WAIT was answered an integer
RepliedInteger(c) == sess[c].pc = "idle" /\ sess[c].reply \notin {"", "-ERR"}

-----------------------------------------------------------------------------
(* The claims *)

\* SpecTx: the request handled last was read while the transaction flag was set
LastInTransaction == hist.issued > 0 /\ hist.transaction

\* the store after the first i commands of a queue were applied to d in the
\* order of the queue
RECURSIVE StoreAfter(_, _, _)
StoreAfter(d, queue, i) ==
    IF i = 0 THEN d
    ELSE ApplyCommands(StoreAfter(d, queue, i - 1), CommandParseTx(queue[i]), TRUE).db

\* the requests of TxFrames that name a command Command::parse has no arm
\* for (FOO), or a command it knows with an argument missing (GET) or with
\* one too many (GET k x, MULTI x)
BadRequests == { <<"FOO">>, <<"GET">>, <<"GET", "k", "x">>, <<"MULTI", "x">> }


\* SpecXadd: the last call was XADD k <ms>-* f v
LastAutoSeq == hist.calls > 0 /\ ParseStreamId(hist.arg).kind = "AutoSeq"

\* the sequence number the AutoSeq arm is to choose for time ms in a stream
\* with the entries ids
ExpectedSeq(ms, ids) ==
    IF ids = {} THEN (IF ms = 0 THEN 1 ELSE 0)
    ELSE IF ms = LastId(ids)[1] THEN LastId(ids)[2] + 1 ELSE 0


\* C1: the write commands' frames are written to each replica link in the
\* order in which the primary's store applied the commands (n numbers them in
\* that order; two equal frames are left out, their order on the link cannot
\* be told); so a replica that was listed before the first write was
\* propagated, is still listed and has applied everything it received, while
\* no session is between apply and propagate, holds the primary's values.
C1_WriteOrder ==
    \A r \in Replicas :
        /\ \A i, j \in 1..Len(sent[r]) :
              (i < j /\ sent[r][i].n > 0 /\ sent[r][j].n > 0 /\ sent[r][i].f # sent[r][j].f)
                  => sent[r][i].n < sent[r][j].n
        /\ (InList(r) /\ hist.joined[r] = 0 /\ Quiescent /\ CaughtUp(r)) => rdb[r] = db

\* C2: the offset of every REPLCONF ACK equals the primary's repl_offset when
\* the GETACK it answers was written (at), on a link whose replica was listed
\* when repl_offset was still 0, so that the first round trip agrees.
C2_AckIsOffsetAtGetAck ==
    \A r \in Replicas :
        (sess[r].pc = "replicated" /\ hist.joined[r] = 0) =>
            \A i \in 1..Len(acks[r]) :
                get_offset(acks[r][i].f) # NotInt => get_offset(acks[r][i].f) = acks[r][i].at

\* C3: while the replica follows the primary, its offset is the sum of the
\* lengths on the wire of all frames it has read since the snapshot, whatever
\* the frames are.
C3_OffsetIsBytesRead ==
    rstate[TheSlave] = "following" => roffset[TheSlave] = SumWire(ReadAfterHandshake)

\* C4: repl_offset is the sum of the lengths on the wire of the SET, DEL, XADD
\* and INCR frames propagated so far (hist.bytes, counted whether or not a
\* replica is listed), and the offset of every replica record is the part of
\* that sum propagated since the record was made; the GETACK broadcasts of
\* WAIT add to neither.
C4_ReplOffsetIsWriteBytes ==
    /\ repl_offset = hist.bytes
    /\ \A i \in 1..Len(slaves) : slaves[i].offset = hist.bytes - hist.joined[slaves[i].conn]

\* C4 witness: writes were propagated to a listed replica, one of them before
\* and one after a GETACK broadcast
C4_Witness ==
    \E r \in Replicas :
        /\ InList(r)
        /\ repl_offset > 0
        /\ \E i, j, k \in 1..Len(sent[r]) :
              i < j /\ j < k /\ sent[r][i].n > 0 /\ sent[r][j].f = GetAckFrame /\ sent[r][k].n > 0

\* C5: what the primary writes to a replica link is the PSYNC response, and
\* after it only REPLCONF GETACK * and the raw frames of SET, DEL, XADD and
\* INCR commands that a client session executed.
C5_OnlyWritesPropagated ==
    \A r \in Replicas : \A i \in 1..Len(sent[r]) :
        CASE i = 1 -> sent[r][i] = SimpleFrame("FULLRESYNC")
          [] i = 2 -> sent[r][i] = DataFrame
          [] OTHER ->
               /\ sent[r][i].t = "Array"
               /\ \/ sent[r][i].f = GetAckFrame /\ sent[r][i].n = 0
                  \/ /\ CommandParse(sent[r][i].f).kind \in {"Set", "Del", "Xadd", "Incr"}
                     /\ sent[r][i].n \in 1..hist.applied

\* C5 witness: with a replica listed, the sessions handled three requests of
\* which one was a write and one a WAIT, and the third was neither
C5_Witness ==
    \E r \in Replicas :
        /\ InList(r) /\ hist.joined[r] = 0 /\ Quiescent
        /\ hist.issued = 3 /\ hist.applied = 1
        /\ Len(sent[r]) = 4
        /\ \E i \in 3..4 : sent[r][i].f = GetAckFrame

C7_WaitWithTimeoutReplies ==
    \A c \in Clients : WaitingWithTimeout(c) ~> RepliedInteger(c)

C9_HandshakeChecksReplies ==
    LET r == TheSlave
    IN /\ \A i \in 1..Min(4, Len(acks[r])) :
             /\ acks[r][i].f = HandshakeRequests[i]
             /\ i > 1 => (rread[r] >= i - 1 /\ sent[r][i - 1] = HandshakeReplies[i - 1])
       /\ rstate[r] \in {"following", "closed"} =>
             \A i \in 1..4 : sent[r][i] = HandshakeReplies[i]

\* C10: what the replica has written to the link is the four requests of the
\* handshake and then one REPLCONF ACK <offset> for each REPLCONF GETACK * it
\* has read since the snapshot, and nothing for any other frame.
C10_OnlyAckIsWritten ==
    LET r == TheSlave
    IN IF rstate[r] \in {"following", "closed"}
       THEN /\ Len(acks[r]) = 4 + Cardinality(GetAcksIn(ReadAfterHandshake))
            /\ \A i \in 5..Len(acks[r]) : get_offset(acks[r][i].f) # NotInt
       ELSE Len(acks[r]) <= 4

\* C10 witness: the replica has read a SET, a PING and a GETACK after the
\* snapshot, holds the value of the SET and has written one frame
C10_Witness ==
    LET r == TheSlave
    IN /\ rstate[r] = "following" /\ rread[r] = 8
       /\ \A i \in 6..8 : sent[r][i].t = "Array"
       /\ {sent[r][i].f : i \in 6..8} = {<<"SET", "k", "1">>, <<"PING">>, GetAckFrame}
       /\ rdb[r]["k"] = StringValue("1")
       /\ Len(acks[r]) = 5

\* C11: while the transaction flag of a session is set, every command other
\* than EXEC, DISCARD and MULTI (every request that Command::parse turns into
\* a Command) is answered +QUEUED and leaves the store as it was; and an EXEC
\* leaves the store that applying the queued commands one after the other,
\* in the order of the queue, produces.
C11_QueuedUntilExec ==
    /\ (LastInTransaction /\ CommandParseTx(hist.f).kind \notin {"Error", "Panic", "Exec", "Discard", "Multi"})
          => /\ hist.written = <<Resp("Simple", "QUEUED")>>
             /\ db = hist.db
             /\ sess[TxClient].pc = "idle" => sess[TxClient].queued = Append(hist.queued, hist.f)
    /\ (LastInTransaction /\ CommandParseTx(hist.f).kind = "Exec")
          => db = StoreAfter(hist.db, hist.queued, Len(hist.queued))

\* SET k 1 and INCR k were queued, the store still empty, and EXEC has left 2
C11_Witness ==
    /\ LastInTransaction
    /\ hist.f = <<"EXEC">>
    /\ hist.queued = << <<"SET", "k", "1">>, <<"INCR", "k">> >>
    /\ hist.db = EmptyDb
    /\ db["k"] = StringValue("2")

\* C12: EXEC replies with one array that has as many elements as commands
\* were queued, the i-th being the result of the i-th command on the store
\* the commands before it left, an error element when that command failed
\* (a failure does not stop the commands after it); after EXEC the flag is
\* clear and the queue is empty.
C12_ExecRepliesArray ==
    (LastInTransaction /\ CommandParseTx(hist.f).kind = "Exec")
        => /\ hist.written = <<Resp("Array", "")>>
           /\ Len(hist.elems) = Len(hist.queued)
           /\ \A i \in 1..Len(hist.queued) :
                 hist.elems[i] = ApplyCommands(StoreAfter(hist.db, hist.queued, i - 1),
                                               CommandParseTx(hist.queued[i]), TRUE).resp
           /\ ~sess[TxClient].transaction
           /\ sess[TxClient].queued = <<>>

\* XADD, INCR and SET were queued: INCR failed on the stream, SET ran after it
C12_Witness ==
    /\ LastInTransaction
    /\ hist.f = <<"EXEC">>
    /\ Len(hist.elems) = 3
    /\ hist.elems[1] = Resp("Bulk", "1-1")
    /\ hist.elems[2].t = "Err"
    /\ hist.elems[3] = Resp("Simple", "OK")
    /\ db["k"] = StringValue("1")

\* C13: a request received while the transaction flag is set that fails to
\* parse is recorded in the queue as an error: the array of the EXEC that
\* ends the transaction has one element for every request received since
\* MULTI (other than MULTI, EXEC, DISCARD), and an error element at the
\* position of each request that failed to parse.
C13_ParseErrorIsQueued ==
    (LastInTransaction /\ CommandParseTx(hist.f).kind = "Exec")
        => /\ Len(hist.elems) = Len(hist.recv)
           /\ \A i \in 1..Len(hist.recv) :
                 CommandParseTx(hist.recv[i]).kind = "Error" => hist.elems[i].t = "Err"

\* C14: a request that names an unknown command, or a known command with an
\* argument missing or one too many, is answered with a RESP error, and the
\* session goes on reading.
C14_BadRequestGetsError ==
    (hist.issued > 0 /\ hist.f \in BadRequests)
        => /\ Len(hist.written) = 1
           /\ hist.written[1].t = "Err"
           /\ sess[TxClient].pc # "panicked"

\* C16: for any sequence of XADD calls on one key, with explicit ids,
\* <ms>-* and *, the ids of the succeeding calls are strictly increasing in
\* the order of the calls, and a call that fails leaves the stream unchanged.
C16_XaddIdsIncrease ==
    /\ \A i, j \in 1..Len(hist.chosen) :
          i < j => (IdLeq(hist.chosen[i], hist.chosen[j]) /\ hist.chosen[i] # hist.chosen[j])
    /\ (hist.calls > 0 /\ ~hist.ok) => StreamIds(db, StreamKey) = hist.before

\* C17 as stated: for every state of the stream, XADD <ms>-* succeeds with
\* the sequence number top.seq + 1 when ms is the top's time and 0 otherwise
\* (1 for time 0 and an empty stream); the explicit id 0-0 is rejected; no
\* stream contains the id (0, 0).
C17_AutoSeqEveryState ==
    /\ LastAutoSeq =>
          /\ hist.ok
          /\ hist.id = <<ParseStreamId(hist.arg).ms,
                         ExpectedSeq(ParseStreamId(hist.arg).ms, hist.before)>>
    /\ (hist.calls > 0 /\ hist.arg = "0-0") => ~hist.ok
    /\ <<0, 0>> \notin StreamIds(db, StreamKey)

\* C17, amended: XADD <ms>-* is rejected, the stream unchanged, when ms is
\* less than the top's time; otherwise it succeeds with the sequence number
\* top.seq + 1 when ms is the top's time and 0 when ms is greater or the
\* stream is empty (1 for time 0 and an empty stream); the explicit id 0-0 is
\* rejected; no stream contains the id (0, 0).
C17_AutoSeqNumber ==
    /\ LastAutoSeq =>
          IF hist.before # {} /\ ParseStreamId(hist.arg).ms < LastId(hist.before)[1]
          THEN ~hist.ok /\ StreamIds(db, StreamKey) = hist.before
          ELSE /\ hist.ok
               /\ hist.id = <<ParseStreamId(hist.arg).ms,
                              ExpectedSeq(ParseStreamId(hist.arg).ms, hist.before)>>
    /\ (hist.calls > 0 /\ hist.arg = "0-0") => ~hist.ok
    /\ <<0, 0>> \notin StreamIds(db, StreamKey)

\* 0-* on the empty stream chose 0-1, 0-* again 0-2, and 1-* then 1-0
C17_Witness ==
    /\ LastAutoSeq
    /\ hist.arg = "1-*"
    /\ hist.chosen = << <<0, 1>>, <<0, 2>>, <<TicksPerMs, 0>> >>

\* C15: a session that receives a malformed frame (one on which Resp::check
\* fails with an error other than Incomplete) replies with an error and
\* continues: every valid request the client has sent, before or after the
\* malformed frame, is eventually executed and answered.
C15_ValidFramesAnswered ==
    \A n \in 1..(MaxSends + 1) : (hist.valid >= n) ~> (hist.answered >= n)

\* C18: every entry an XREAD returns, at once or after it was unblocked, has
\* an id strictly greater than the lower bound given for its key (for $,
\* strictly greater than the top of the stream when the call began).
C18_XreadAboveLowerBound ==
    sess.reply = "Entries" => \A i \in sess.ids : ~IdLeq(i, sess.floor)

\* C19: the reply of an XREAD that was unblocked is computed by reading the
\* store from the caller's lower bound, not from the notified id: it holds
\* every entry of the stream above the lower bound that the store holds at
\* that moment, up to COUNT.
C19_UnblockedReadsFromLowerBound ==
    (sess.reply = "Entries" /\ sess.added # <<0, 0>>)
        => Take(Above(sess.store, sess.floor), sess.count) \subseteq sess.ids

\* C20: a notification that was missed or overwritten does not change the
\* result of a blocking XREAD: XREAD BLOCK t with t > 0 replies Null only if
\* the stream holds no entry above the lower bound at that moment; and a
\* waiting call for which the stream holds such an entry has a notification
\* to see (an append between the first scan and the subscription is not lost).
C20_NullOnlyWhenNothingNewer ==
    /\ (sess.reply = "Null" /\ sess.block = "1000") => Above(sess.store, sess.floor) = {}
    /\ (sess.pc = "waiting" /\ Above(StreamIds(db, StreamKey), sess.floor) # {})
          => sent.version # sess.seen

\* C21: an access (GET or TYPE) to a key whose expiration instant has passed
\* answers as for a missing key, GET with Null and TYPE with none, and leaves the
\* entry deleted; a GET of a string before the instant answers its value.
C21_ExpiredKeyIsMissing ==
    [][(hist'.op \in {"GET", "TYPE"} /\ hist'.ops # hist.ops) =>
        LET k == hist'.keys[1]
        IN IF rstate = <<k>> \/ (db[k] # NoValue /\ Expired(roffset, k, hist.now))
           THEN /\ hist'.reply = (IF hist'.op = "GET" THEN Resp("Null", "")
                                  ELSE Resp("Simple", "none"))
                /\ db'[k] = NoValue
           ELSE (hist'.op = "GET" /\ db[k] # NoValue /\ db[k].t = "string")
                    => hist'.reply = Resp("Bulk", db[k].v)]_vars

\* C22: the sessions that have each issued one INCR on a key that was missing and
\* that nothing else has written were answered 1..N, each number once, and the
\* key holds the decimal text of N.
C22_ConcurrentIncrs ==
    \A k \in Keys \ hist.touched :
        LET S == {c \in IncrSessions : sess[c].done /\ sess[c].key = k}
        IN /\ \A c \in S : sess[c].ok
           /\ {sess[c].val : c \in S} = 1..Cardinality(S)
           /\ S # {} => db[k] = StringValue(ToString(Cardinality(S)))

C22_Witness ==
    /\ "k" \notin hist.touched
    /\ \A c \in IncrSessions : sess[c].done /\ sess[c].key = "k"
    /\ db["k"] = StringValue("3")

\* C23: INCR on an absent key stores 1 and answers 1; on a string that is the
\* decimal text of an integer v below the maximum it stores v + 1 and answers it;
\* on a stream, on a string that is no integer and on the maximum it answers an
\* error and leaves the key's value and expiration as they were.
C23_IncrValueOrError ==
    [][\A c \in IncrSessions : (~sess[c].done /\ sess'[c].done) =>
        LET k == sess'[c].key
            v == IF db[k] # NoValue /\ db[k].t = "string" /\ db[k].v \in DOMAIN StrInt
                 THEN StrInt[db[k].v] ELSE NotInt
        IN IF db[k] = NoValue
           THEN /\ db'[k] = StringValue("1")
                /\ hist'.reply = Resp("Integer", "1")
           ELSE IF v # NotInt /\ v < I64Max
           THEN /\ db'[k] = StringValue(ToString(v + 1))
                /\ hist'.reply = Resp("Integer", ToString(v + 1))
           ELSE /\ hist'.reply.t = "Err"
                /\ db'[k] = db[k]
                /\ roffset'[k] = roffset[k]]_vars

\* C30: DEL removes every key it names, answers the number of named keys that
\* were in the store, a key named twice counted once, and leaves the value and
\* the expiration of every other key as they were.
C30_DelRemovesNamedKeys ==
    [][(hist'.op = "DEL" /\ hist'.ops # hist.ops) =>
        LET named == {hist'.keys[i] : i \in 1..Len(hist'.keys)}
        IN /\ \A k \in named : db'[k] = NoValue
           /\ hist'.reply = Resp("Integer", ToString(Cardinality({k \in named : db[k] # NoValue})))
           /\ \A k \in Keys \ named : db'[k] = db[k] /\ roffset'[k] = roffset[k]]_vars

C30_Witness ==
    /\ hist.op = "DEL"
    /\ hist.keys = <<"k", "k">>
    /\ hist.reply = Resp("Integer", "1")
    /\ db["j"] # NoValue
    /\ roffset["j"] # 0

\* C24: for every frame written, Resp::parse of the bytes Handler::write
\* produced gives the frame back, and the number of those bytes is Resp::len
\* of the frame.
C24_ParseOfWriteIsFrame ==
    \A i \in 1..Len(hist.frames) :
        LET f == hist.frames[i]
            bytes == WriteResp(<<f>>)
            parsed == ParseResp(bytes, 1, 1)
        IN /\ parsed.res = "Ok"
           /\ parsed.elems = <<f>>
           /\ parsed.pos = Len(bytes) + 1
           /\ SumSeq([j \in 1..Len(bytes) |-> Len(bytes[j])]) = LenResp(<<f>>)

\* C25: Resp::check answers Incomplete on every proper prefix of the bytes of
\* every frame written: the prefixes that end behind a whole chunk and those
\* that end inside a line end, a length, a number or a payload.
C25_PrefixIsIncomplete ==
    \A i \in 1..Len(hist.frames) :
        LET bytes == WriteResp(<<hist.frames[i]>>)
            half(c) == CASE c = "\r\n" -> "\r"
                         [] c = "12" -> "1"
                         [] c = "-12" -> "-1"
                         [] c = "-1" -> "-"
                         [] c = "OK" -> "O"
                         [] c = "PING" -> "PI"
                         [] c = "SET" -> "S"
                         [] c = "ERR x" -> "ERR"
                         [] c = "hello world!" -> "hello"
                         [] OTHER -> ""
            Prefixes == {SubSeq(bytes, 1, k) : k \in 0..(Len(bytes) - 1)}
                        \cup {Append(SubSeq(bytes, 1, k - 1), half(bytes[k])) :
                                k \in {j \in 1..Len(bytes) : half(bytes[j]) # ""}}
        IN \A p \in Prefixes : RespCheck(p, 1, 1).res = "Incomplete"

\* C26: however the bytes of the frames written (error frames apart) are cut
\* into reads, read neither panics nor fails, the frames it has returned are
\* the first of the frames written, in their order and each once, the bytes
\* still in the buffer or in flight are exactly those of the frames not yet
\* returned, and read returns None only at the end of the stream.
C26_FramesInArrivalOrder ==
    (\A i \in 1..Len(hist.frames) : hist.frames[i].t # "Err") =>
        /\ sess.pc \in {"reading", "finished"}
        /\ Len(sess.got) <= Len(hist.frames)
        /\ sess.got = SubSeq(hist.frames, 1, Len(sess.got))
        /\ sess.buf \o sent = WriteResp(SubSeq(hist.frames, Len(sess.got) + 1, Len(hist.frames)))
        /\ sess.pc = "finished" => hist.closed /\ sent = <<>>

\* C27: a propagate call leaves in the list the replicas that were in it, in
\* their order, without those whose write failed with ConnectionAborted,
\* UnexpectedEof or ConnectionReset; every replica whose write succeeded has
\* the frame on its link, whatever happened to the others; and a link that was
\* added and is no longer in the list is never written again.
C27_PropagateDropsDisconnected ==
    [][/\ hist'.n # hist.n =>
            LET keep == {i \in 1..Len(slaves) :
                           hist'.res[i] \notin {"ConnectionAborted", "UnexpectedEof",
                                                "ConnectionReset"}}
                nth(j) == CHOOSE i \in keep : Cardinality({x \in keep : x < i}) = j - 1
            IN /\ Len(slaves') = Cardinality(keep)
               /\ \A j \in 1..Len(slaves') : slaves'[j].conn = slaves[nth(j)].conn
               /\ \A i \in 1..Len(slaves) :
                    hist'.res[i] = "Ok" =>
                        Len(sent'[slaves[i].conn]) = Len(sent[slaves[i].conn]) + 1
       /\ \A r \in hist.joined :
            (\A i \in 1..Len(slaves) : slaves[i].conn # r) => sent'[r] = sent[r]]_vars

C27_Witness ==
    /\ hist.n = MaxPropagates
    /\ Len(hist.res) = 3
    /\ hist.res[1] = "ConnectionReset"
    /\ hist.res[2] = "BrokenPipe"
    /\ hist.res[3] = "Ok"
    /\ Len(slaves) = 2
    /\ Len(sent[slaves[2].conn]) = MaxPropagates

\* C28: DISCARD received while the transaction flag is set is answered +OK,
\* empties the queue and clears the flag, and executes nothing: the store,
\* repl_offset and the replica links are as before; and an EXEC that follows
\* it is answered ERR EXEC without MULTI.
C28_DiscardDropsQueue ==
    [][/\ (hist'.issued # hist.issued /\ sess[TxClient].transaction
             /\ CommandParseTx(hist'.f).kind = "Discard")
          => /\ hist'.written = <<Resp("Simple", "OK")>>
             /\ sess'[TxClient].queued = <<>>
             /\ ~sess'[TxClient].transaction
             /\ db' = db
             /\ repl_offset' = repl_offset
             /\ slaves' = slaves /\ sent' = sent
       /\ (hist'.issued # hist.issued /\ hist.transaction
             /\ hist.f = <<"DISCARD">> /\ hist'.f = <<"EXEC">>)
          => /\ hist'.written = <<Resp("Err", "ERR EXEC without MULTI")>>
             /\ db' = db
             /\ repl_offset' = repl_offset]_vars

\* SET k 1 and INCR k were queued and discarded: the store is empty still and
\* nothing was propagated
C28_Witness ==
    /\ LastInTransaction
    /\ hist.f = <<"DISCARD">>
    /\ hist.queued = << <<"SET", "k", "1">>, <<"INCR", "k">> >>
    /\ db = EmptyDb
    /\ repl_offset = 0
    /\ sess[TxClient] = TxIdle

\* C29: MULTI received while the transaction flag is set is answered ERR MULTI
\* calls can not be nested and is not queued: flag, queue and store stay; and
\* the EXEC of a transaction executes exactly the commands queued in it,
\* those received before and after a rejected MULTI, in their order.
C29_NestedMultiRejected ==
    /\ (LastInTransaction /\ CommandParseTx(hist.f).kind = "Multi")
          => /\ hist.written = <<Resp("Err", "ERR MULTI calls can not be nested")>>
             /\ sess[TxClient].pc = "idle" =>
                    sess[TxClient].transaction /\ sess[TxClient].queued = hist.queued
             /\ db = hist.db
    /\ (LastInTransaction /\ CommandParseTx(hist.f).kind = "Exec")
          => LET parses(f) == CommandParseTx(f).kind \notin {"Error", "Panic"}
             IN /\ hist.queued = SelectSeq(hist.recv, parses)
                /\ Len(hist.elems) = Len(hist.queued)
                /\ db = StoreAfter(hist.db, hist.queued, Len(hist.queued))

\* SET k 1, a rejected MULTI, INCR k, then EXEC: both commands ran
C29_Witness ==
    /\ LastInTransaction
    /\ hist.f = <<"EXEC">>
    /\ hist.nested
    /\ hist.queued = << <<"SET", "k", "1">>, <<"INCR", "k">> >>
    /\ db["k"] = StringValue("2")

\* C31 (as the claim states it): when the replica answers a REPLCONF GETACK *,
\* the offset in its REPLCONF ACK already includes the length of that GETACK
\* frame, the length being added before the command is considered.
C31_AckIncludesGetAck ==
    [][\A r \in Replicas :
          (rstate[r] = "following" /\ Len(acks'[r]) = Len(acks[r]) + 1) =>
              get_offset(acks'[r][Len(acks'[r])].f) = roffset[r] + RespLen(NextFrame(r).f)]_vars

\* C31 (amended): the length of a frame is added to the offset after the
\* command in it was handled, so the REPLCONF ACK that answers a REPLCONF
\* GETACK * carries the offset as it was before that frame, and only after
\* the answer does the offset grow by the length of the GETACK frame.
C31_AckBeforeIncrease ==
    [][\A r \in Replicas :
          (rstate[r] = "following" /\ Len(acks'[r]) = Len(acks[r]) + 1) =>
              /\ get_offset(acks'[r][Len(acks'[r])].f) = roffset[r]
              /\ roffset'[r] = roffset[r] + RespLen(NextFrame(r).f)]_vars

\* C31 witness: after the snapshot the replica has read SET k 1 (27 bytes) and
\* a GETACK (37 bytes); it answered REPLCONF ACK 27 and its offset is 64
C31_Witness ==
    LET r == TheSlave
    IN /\ rstate[r] = "following" /\ rread[r] = 7
       /\ sent[r][6].f = <<"SET", "k", "1">> /\ sent[r][7].f = GetAckFrame
       /\ Len(acks[r]) = 5 /\ acks[r][5].f = AckFrame(27)
       /\ roffset[r] = 64

\* C32: while a session is in the scan of WAIT it holds the write lock on the
\* replica list, and no step taken meanwhile changes repl_offset, the list or
\* a record in it, or writes to the link of a listed replica.
C32_NoPropagateWhileCounting ==
    [][(\E c \in Clients : sess[c].pc = "wait_scan") =>
          /\ \E c \in Clients : sess[c].pc = "wait_scan" /\ lock = c
          /\ repl_offset' = repl_offset
          /\ slaves' = slaves
          /\ \A i \in 1..Len(slaves) : sent'[slaves[i].conn] = sent[slaves[i].conn]]_vars

\* C32 witness: c1 counts the ACKs while c2 has executed a write command and
\* its propagate call waits for the lock
C32_Witness ==
    /\ sess["c1"].pc = "wait_scan" /\ lock = "c1"
    /\ sess["c2"].pc = "propagate"
    /\ Len(slaves) = 1

\* C33: whatever parts of the primary's bytes the replica's reads deliver, the
\* handshake neither fails nor panics on the snapshot bulk; and once the
\* replica follows, the snapshot it parsed is the whole bulk, the frames it
\* has read since are the first frames the primary propagated, its offset is
\* the sum of their lengths, and every byte behind them is still in the
\* buffer or in flight.
C33_SnapshotConsumedExactly ==
    /\ rstate \notin {"failed", "panicked"}
    /\ rstate = "following" =>
          /\ rdb = PsyncExecute[2].v
          /\ Len(sess.got) - 1 <= Len(hist.frames)
          /\ Tail(sess.got) = SubSeq(hist.frames, 1, Len(sess.got) - 1)
          /\ roffset = LenResp(Tail(sess.got))
          /\ WriteResp(Tail(sess.got)) \o sess.buf \o sent = WriteResp(hist.frames)

\* C34: when the scan of a WAIT counts a replica (the REPLCONF ACK it reads
\* from the replica's link carries an offset of at least the repl_offset the
\* WAIT began with), the replica has read every SET, DEL, XADD and INCR frame
\* that was written to its link before the WAIT read repl_offset.
C34_CountedReplicaConsumedWrites ==
    [][\A c \in Clients :
          (/\ sess[c].pc = "wait_scan"
           /\ acks[slaves[sess[c].idx].conn] # <<>>
           /\ acks'[slaves[sess[c].idx].conn] = Tail(acks[slaves[sess[c].idx].conn])
           /\ get_offset(Head(acks[slaves[sess[c].idx].conn]).f) >= sess[c].mo) =>
              LET r == slaves[sess[c].idx].conn
              IN \A i \in 1..Len(sent[r]) :
                    (/\ sent[r][i].t = "Array"
                     /\ CommandParse(sent[r][i].f).kind \in WriteKinds
                     /\ sent[r][i].at < sess[c].mo) => i <= rread[r]]_vars

\* C35: when a WAIT ends by reading a replica's answer (not by its timer)
\* while every listed replica follows the primary and has read every frame
\* written to its link, the reply is the integer min(n, number of listed
\* replicas), whatever WAITs came before and whenever the replicas joined.
C35_WaitCountsCaughtUpReplicas ==
    [][\A c \in Clients :
          (/\ sess[c].pc = "wait_scan" /\ sess'[c].pc = "idle"
           /\ acks' # acks
           /\ \A i \in 1..Len(slaves) : CaughtUp(slaves[i].conn)) =>
              sess'[c].reply =
                  ":" \o ToString(Min(CommandParse(sess[c].cmd).min_slaves, Len(slaves)))]_vars

\* C36: a write command that the primary executed after it began to answer
\* the PSYNC of replica r (the snapshot, already sent, cannot hold it) is
\* written to r's link: also when its propagate call runs while the session
\* of r is between the snapshot and add_slave.
C36_NoWriteLostAtHandover ==
    [][\A r \in Replicas : \A c \in Clients :
          (/\ sess[r].pc = "psync"
           /\ sess[c].pc = "propagate" /\ sess'[c].pc = "idle"
           /\ sess[c].n > sess[r].n) =>
              \E i \in 1..Len(sent'[r]) : sent'[r][i].n = sess[c].n]_vars

\* C37: the delete of GET's lazy expiry removes no live value: when Db::get,
\* having found k expired and dropped its lock, reaches del, an entry of k
\* that is not expired (another session has SET k meanwhile) stays in the
\* store.
C37_LazyExpiryKeepsLiveValue ==
    [][(rstate # <<>> /\ rstate' = <<>>) =>
          LET k == rstate[1]
          IN (db[k] # NoValue /\ ~Expired(roffset, k, hist.now)) => db'[k] = db[k]]_vars

\* C38: the results in the array EXEC writes are the results of the queued
\* commands run one after the other, nothing in between, on the store as it
\* was when EXEC began.
C38_ExecRunsAlone ==
    sess.replied => sess.queue_res = ApplyExec(hist.db, hist.queued).queue_res

\* C39: when a session of the primary handles a write-class command whose
\* execution fails, that step writes to no replica link and leaves repl_offset
\* and every replica record unchanged, and the session is back at reading
\* with no propagate to come.
C39_FailedWriteNotPropagated ==
    [][\A c \in Clients, f \in ClientFrames :
          (/\ CommandParse(f).kind \in WriteKinds
           /\ ~Execute(db, CommandParse(f)).ok
           /\ HandleCommand(c, f))
          => /\ UNCHANGED <<db, repl_offset, slaves, sent>>
             /\ sess'[c] = Idle]_vars

\* a session is about to read a write-class command that fails (INCR on a
\* stream, XADD of an id that is the top) while a replica is listed and
\* earlier writes were propagated
C39_Witness ==
    /\ slaves # <<>>
    /\ repl_offset > 0
    /\ hist.issued < MaxCmds
    /\ \E c \in Clients : sess[c].pc = "idle"
    /\ CommandParse(<<"INCR", "k">>).kind \in WriteKinds
    /\ ~Execute(db, CommandParse(<<"INCR", "k">>)).ok
    /\ ~Execute(db, CommandParse(<<"XADD", "k", "1-1", "f", "v">>)).ok

\* C40: a request read while a transaction is open is not propagated and not
\* applied when it is queued; EXEC propagates exactly the queued write-class
\* requests whose execution succeeded, each as its own frame and in the order
\* of the queue, with no MULTI or EXEC frame; DISCARD and the client's
\* disconnect propagate nothing, apply nothing and leave nothing queued.
C40_TransactionPropagation ==
    [][/\ (hist'.issued = hist.issued + 1 /\ hist'.transaction) =>
            LET q == hist'.queued
                res == hist'.elems
                kind == CommandParseTx(hist'.f).kind
                written == SelectSeq([i \in 1..Len(q) |-> i],
                               LAMBDA i : /\ CommandParseTx(q[i]).kind \in WriteKinds
                                          /\ res[i].t # "Err")
            IN IF kind = "Exec"
               THEN sent' = sent \o [j \in 1..Len(written) |-> q[written[j]]]
               ELSE /\ sent' = sent
                    /\ db' = db
                    /\ repl_offset' = repl_offset
                    /\ kind = "Discard" => sess'[TxClient].queued = <<>>
       /\ sess'[TxClient].pc = "finished" =>
            /\ UNCHANGED <<sent, db, repl_offset>>
            /\ sess'[TxClient].queued = <<>>]_vars

\* EXEC was handled with a queue of a write that succeeded, a write that
\* failed and a write that succeeded, and two frames were propagated
C40_Witness ==
    /\ hist.f = <<"EXEC">>
    /\ hist.transaction
    /\ Len(hist.queued) = 3
    /\ hist.elems[1].t # "Err"
    /\ hist.elems[2].t = "Err"
    /\ hist.elems[3].t # "Err"
    /\ \A i \in 1..3 : CommandParseTx(hist.queued[i]).kind \in WriteKinds
    /\ sent = <<hist.queued[1], hist.queued[3]>>

====
